---- MODULE Spec2Model ----
(***************************************************************************)
(* Upload lifecycle of the beam server: UploadService (ProcessUpload,      *)
(* GetInfo, Download, DeleteUpload) over the record store (Repository) and *)
(* the blob store (FileSystemStore), and the reclamation cycle of          *)
(* CleanupService.                                                         *)
(*                                                                         *)
(* Every handler is a process that takes one step per store call, so that  *)
(* the interleavings of concurrent requests and the reclamation cycle are  *)
(* the ones the Go code has.  The computation between two store calls is   *)
(* local to the goroutine and belongs to the step that follows it.         *)
(*                                                                         *)
(* Environment: the record store answers point lookups (GetByID); writes,  *)
(* deletes, the expired-records query and every blob-store call may fail.  *)
(* Random ids are fresh (collisions of 16 random characters are ignored).  *)
(***************************************************************************)
EXTENDS Integers, Sequences, FiniteSets, TLC

VARIABLES now, nextId, records, blobs, pc, loc, cl, unlinked, last,
          rl, callers, grants, born, sched, fn

\* the upload service, its two stores and the cycle of the cleanup service
svars == <<now, nextId, records, blobs, pc, loc, cl, unlinked, last>>
\* the admission limiter and the callers of allow
lvars == <<rl, callers, grants, born>>

vars == <<now, nextId, records, blobs, pc, loc, cl, unlinked, last,
          rl, callers, grants, born, sched, fn>>

(* ---------------------------------------------------------------- bounds *)
MaxTime == 2
MaxUploads == 2
MaxDownloads == 1
MaxCount == 2
MaxEntries == 2
MaxOver == 2
MaxShort == 3
MaxSmallLen == 2
MaxGap == 2
MaxEvents == 7
MaxMeasured == 2
MaxLimTime == 3

(* ------------------------------------------------------- configuration  *)
\* cfg.MaxFileSize, in bytes (scaled)
MaxFileSize == 5
\* cfg.DefaultExpiry, in clock ticks (scaled)
DefaultExpiry == 1

Procs == {1, 2}
Ids == 1..MaxUploads
NoRecord == [none |-> TRUE]
NoLoc == [none |-> TRUE]
Passwords == {"", "p", "q"}

\* "del_" + generateSecureToken(24): one fresh random token per upload
TokenOf(id) == <<"del_", id>>
\* the tokens a caller may present: the ones issued, and one never issued
Tokens == {TokenOf(id) : id \in Ids} \cup {<<"del_", 0>>}

(* ------------------------------------------------------------- archives *)
\* An input stream: bytes are its first bytes, size its real length,
\* parses whether archive/zip can read its central directory, entries the
\* name and declared uncompressed size of each entry.
ArchiveGood ==
  [tag |-> "good", bytes |-> <<80, 75, 3, 4>>, size |-> 5, parses |-> TRUE,
   entries |-> << [name |-> <<"a", ".", "t", "x", "t">>, usize |-> 2],
                   [name |-> <<"R", "E", "A", "D", "M", "E">>, usize |-> 1] >>]
ArchiveEmpty ==
  [tag |-> "empty", bytes |-> <<80, 75, 5, 6>>, size |-> 4, parses |-> TRUE,
   entries |-> << >>]
ArchivePdf ==
  [tag |-> "pdf", bytes |-> <<37, 80, 68, 70>>, size |-> 5, parses |-> FALSE,
   entries |-> << >>]
ArchiveShort ==
  [tag |-> "short", bytes |-> <<80, 75>>, size |-> 2, parses |-> FALSE,
   entries |-> << >>]
ArchiveCorrupt ==
  [tag |-> "corrupt", bytes |-> <<80, 75, 3, 4>>, size |-> 5, parses |-> FALSE,
   entries |-> << >>]
ArchiveExe ==
  [tag |-> "exe", bytes |-> <<80, 75, 3, 4>>, size |-> 5, parses |-> TRUE,
   entries |-> << [name |-> <<"a", ".", "t", "x", "t">>, usize |-> 1],
                   [name |-> <<"p", ".", "E", "X", "E">>, usize |-> 1] >>]

Archives ==
  {ArchiveGood, ArchiveEmpty, ArchivePdf, ArchiveShort, ArchiveCorrupt, ArchiveExe}

\* a stream longer than the configured maximum
ArchiveLong ==
  [tag |-> "long", bytes |-> <<80, 75, 3, 4>>, size |-> MaxFileSize + 1,
   parses |-> TRUE,
   entries |-> << [name |-> <<"a", ".", "t", "x", "t">>, usize |-> 1] >>]

\* hex(sha256(bytes)): one digest per content
fileHashOf(data) == data.tag

(* ------------------------------------------------------------ filenames *)
\* A name is a sequence of one-character strings.
IsSep(c) == c = "/"

\* strings.ReplaceAll(name, "\\", "/")
ReplaceBackslashes(name) ==
  [i \in 1..Len(name) |-> IF name[i] = "\\" THEN "/" ELSE name[i]]

RECURSIVE StripTrailingSeps(_)
StripTrailingSeps(path) ==
  IF Len(path) > 0 /\ IsSep(path[Len(path)])
  THEN StripTrailingSeps(SubSeq(path, 1, Len(path) - 1))
  ELSE path

\* index of the last separator of path, 0 when it has none
LastSep(path) ==
  IF \E i \in 1..Len(path) : IsSep(path[i])
  THEN CHOOSE i \in 1..Len(path) :
         IsSep(path[i]) /\ \A j \in (i + 1)..Len(path) : ~IsSep(path[j])
  ELSE 0

\* path/filepath.Base
Base(path) ==
  IF path = << >> THEN <<".">>
  ELSE LET stripped == StripTrailingSeps(path)
           rest == SubSeq(stripped, LastSep(stripped) + 1, Len(stripped))
       IN IF rest = << >> THEN <<"/">> ELSE rest

\* path/filepath.Ext: from the last dot of the last path element
Ext(path) ==
  LET from == LastSep(path) + 1
  IN IF \E i \in from..Len(path) : path[i] = "."
     THEN LET d == CHOOSE i \in from..Len(path) :
                     path[i] = "." /\ \A j \in (i + 1)..Len(path) : path[j] # "."
          IN SubSeq(path, d, Len(path))
     ELSE << >>

DefaultName == <<"u", "p", "l", "o", "a", "d", ".", "z", "i", "p">>
\* the value of a call that ended in a run-time panic (slice out of range)
Panic == <<"!panic">>

\* sanitizeFilename with the length limit as a parameter
sanitizeWith(name, limit) ==
  LET base == Base(ReplaceBackslashes(name))
      ext == Ext(base)
      cut == IF Len(base) > limit
             THEN IF limit - Len(ext) < 0 THEN Panic
                  ELSE SubSeq(base, 1, limit - Len(ext)) \o ext
             ELSE base
  IN IF cut = << >> \/ cut = <<".">> THEN DefaultName ELSE cut

MaxNameLen == 255

sanitizeFilename(name) == sanitizeWith(name, MaxNameLen)


(* ----------------------------------------------------------- validation *)
\* the denylist, each extension a sequence of one-character strings
dangerousExtensions ==
  {<<".", "e", "x", "e">>,
   <<".", "b", "a", "t">>,
   <<".", "c", "m", "d">>,
   <<".", "c", "o", "m">>,
   <<".", "s", "c", "r">>,
   <<".", "p", "i", "f">>,
   <<".", "v", "b", "s">>,
   <<".", "v", "b", "e">>,
   <<".", "w", "s", "f">>,
   <<".", "w", "s", "h">>,
   <<".", "m", "s", "i">>,
   <<".", "h", "t", "a">>,
   <<".", "l", "n", "k">>,
   <<".", "c", "p", "l">>,
   <<".", "i", "n", "f">>,
   <<".", "r", "e", "g">>}

UpperCase ==
  <<"A", "B", "C", "D", "E", "F", "G", "H", "I", "J", "K", "L", "M",
    "N", "O", "P", "Q", "R", "S", "T", "U", "V", "W", "X", "Y", "Z">>
LowerCase ==
  <<"a", "b", "c", "d", "e", "f", "g", "h", "i", "j", "k", "l", "m",
    "n", "o", "p", "q", "r", "s", "t", "u", "v", "w", "x", "y", "z">>

\* the lower-case letter of each upper-case letter
LowerOf ==
  [c \in {UpperCase[k] : k \in 1..Len(UpperCase)} |->
     LowerCase[CHOOSE k \in 1..Len(UpperCase) : UpperCase[k] = c]]

\* strings.ToLower, on ASCII: each upper-case letter becomes its lower-case
\* letter, every other character stays
ToLower(str) ==
  [i \in 1..Len(str) |->
     IF str[i] \in DOMAIN LowerOf THEN LowerOf[str[i]] ELSE str[i]]

validateZipMagicBytes(data) ==
  IF data.size < 4 THEN "InvalidArchive"
  ELSE IF data.bytes[1] = 80 /\ data.bytes[2] = 75
          /\ (   (data.bytes[3] = 3 /\ data.bytes[4] = 4)
              \/ (data.bytes[3] = 5 /\ data.bytes[4] = 6))
       THEN "ok"
       ELSE "InvalidArchive"

\* The machine words of the sizes, scaled: uint64 is 0..2^WordBits - 1 and
\* int64 is -2^(WordBits-1)..2^(WordBits-1) - 1 (the integers of TLC have
\* 32 bits, so the 64 of the code cannot be written).
WordBits == 6

\* int64(u) of a uint64 u: the same bits in two's complement
Int64(u) == IF u >= 2^(WordBits - 1) THEN u - 2^WordBits ELSE u

\* a + b in int64: the sum wraps around
AddInt64(a, b) == ((a + b + 2^(WordBits - 1)) % 2^WordBits) - 2^(WordBits - 1)

\* totalUncompressed += int64(f.UncompressedSize64), entry after entry
RECURSIVE SumSizes(_)
SumSizes(es) ==
  IF es = << >> THEN 0
  ELSE AddInt64(SumSizes(SubSeq(es, 1, Len(es) - 1)), Int64(es[Len(es)].usize))

\* validateAndMeasureZip comparing the extensions without strings.ToLower
validateAndMeasureZipCaseSensitive(data) ==
  IF ~data.parses THEN [err |-> "InvalidArchive", size |-> 0]
  ELSE IF \E i \in 1..Len(data.entries) :
             Ext(data.entries[i].name) \in dangerousExtensions
       THEN [err |-> "DangerousContent", size |-> 0]
       ELSE [err |-> "ok", size |-> SumSizes(data.entries)]

\* validateAndMeasureZip looking at the first entry only
validateAndMeasureZipFirstEntry(data) ==
  IF ~data.parses THEN [err |-> "InvalidArchive", size |-> 0]
  ELSE IF /\ data.entries # << >>
          /\ ToLower(Ext(data.entries[1].name)) \in dangerousExtensions
       THEN [err |-> "DangerousContent", size |-> 0]
       ELSE [err |-> "ok", size |-> SumSizes(data.entries)]

\* result of validateAndMeasureZip: [err, size]
validateAndMeasureZip(data) ==
  IF ~data.parses THEN [err |-> "InvalidArchive", size |-> 0]
  ELSE IF \E i \in 1..Len(data.entries) :
             ToLower(Ext(data.entries[i].name)) \in dangerousExtensions
       THEN [err |-> "DangerousContent", size |-> 0]
       ELSE [err |-> "ok", size |-> SumSizes(data.entries)]

\* Steps 4 and 5 of ProcessUpload: the verdict on the buffered bytes
ArchiveVerdict(data) ==
  IF validateZipMagicBytes(data) # "ok" THEN validateZipMagicBytes(data)
  ELSE validateAndMeasureZip(data).err

(* ------------------------------------------------------------ passwords *)
\* bcrypt.GenerateFromPassword: a salted digest of the password
GenerateFromPassword(pw, salt) == [salt |-> salt, digest |-> pw]

\* bcrypt.CompareHashAndPassword: recompute with the stored salt and compare
CompareHashAndPassword(hash, pw) == GenerateFromPassword(pw, hash.salt) = hash

NoHash == [nil |-> TRUE]

(* ----------------------------------------------------------- repository *)
Stored == {id \in Ids : records[id] # NoRecord}

\* Repository.GetByID
GetByID(id) == records[id]

\* GetExpired with a grace period of one tick after expires_at
\* GetExpired with expires_at <= now
GetExpiredInclusive == {id \in Stored : records[id].ExpiresAt <= now}

GetExpiredAfterGrace == {id \in Stored : records[id].ExpiresAt + 1 < now}

\* Repository.GetExpired: WHERE expires_at < NOW()
GetExpired == {id \in Stored : records[id].ExpiresAt < now}

\* Repository.GetByHash: WHERE file_hash = $1 AND expires_at > NOW()
GetByHash(hash) ==
  {id \in Stored : records[id].FileHash = hash /\ records[id].ExpiresAt > now}

\* time.Now().After(upload.ExpiresAt)
IsExpired(rec, t) == t > rec.ExpiresAt

(* --------------------------------------------------------------- results *)
\* last is what the step just taken returned to its caller, NoResult when
\* the step returned nothing: res is "ok" or the error, name the filename and
\* token the deletion token returned, consumed how far ProcessUpload got
\* with its input ("none": nothing generated, nothing read; "generated": id
\* and token generated; "read": the reader drained as well).
NoToken == << >>

Reply(op, id, res, name, token, consumed) ==
  [op |-> op, id |-> id, res |-> res, path |-> << >>,
   name |-> name, token |-> token, consumed |-> consumed]

Result(op, id, res) == Reply(op, id, res, << >>, NoToken, "none")

NoResult == Result("none", 0, "none")

TypeOK ==
  /\ now \in 0..MaxTime
  /\ nextId \in 1..(MaxUploads + 1)
  /\ blobs \subseteq Ids
  /\ DOMAIN records = Ids
  /\ DOMAIN pc = Procs

Init ==
  /\ now = 0
  /\ nextId = 1
  /\ records = [id \in Ids |-> NoRecord]
  /\ blobs = {}
  /\ pc = [p \in Procs |-> "idle"]
  /\ loc = [p \in Procs |-> NoLoc]
  /\ cl = [pc |-> "idle", todo |-> {}, cur |-> 0, found |-> {},
           cleaned |-> 0, failed |-> 0, blobFailed |-> {}, recFailed |-> {}]
  /\ unlinked = {}
  /\ last = NoResult

\* The reply of a step reaches its caller before the next step is taken.
Quiet == last = NoResult

\* the clock advances
Tick ==
  /\ Quiet
  /\ now < MaxTime
  /\ now' = now + 1
  /\ last' = NoResult
  /\ UNCHANGED <<nextId, records, blobs, pc, loc, cl, unlinked>>

\* A request is served by a handler goroutine of its own; the handlers are
\* interchangeable, so a new request takes the first idle one.
Idle == {p \in Procs : pc[p] = "idle"}
FirstIdle == CHOOSE p \in Idle : \A q \in Idle : p <= q

\* a call that returns r without a further store call
Answer(r) ==
  /\ Quiet
  /\ Idle # {}
  /\ last' = r
  /\ UNCHANGED <<pc, loc>>

\* The calls in flight without the one of handler p: the handlers behind it
\* move up, so that the idle handlers are always the last ones.
Without(f, p, free) ==
  [q \in Procs |-> IF q < p THEN f[q]
                   ELSE IF q + 1 \in Procs THEN f[q + 1]
                   ELSE free]

\* the call of handler p returns r
Return(p, r) ==
  /\ Quiet
  /\ pc' = Without(pc, p, "idle")
  /\ loc' = Without(loc, p, NoLoc)
  /\ last' = r

Goto(p, label, l) ==
  /\ Quiet
  /\ pc' = [pc EXCEPT ![p] = label]
  /\ loc' = [loc EXCEPT ![p] = l]
  /\ last' = NoResult

(* -------------------------------------------------------- ProcessUpload *)
\* A request: filename, data reader, declared size, password.
Request(filename, data, size, password) ==
  [filename |-> filename, data |-> data, size |-> size, password |-> password]

WinName == <<"d", "\\", "f", ".", "z">>

UploadRequests ==
  { Request(WinName, ArchiveGood, MaxFileSize, ""),
    Request(<< >>, ArchiveEmpty, MaxFileSize - 1, "p"),
    Request(WinName, ArchiveGood, MaxFileSize + 1, ""),
    Request(WinName, ArchivePdf, MaxFileSize, ""),
    Request(WinName, ArchiveShort, MaxFileSize - 1, ""),
    Request(WinName, ArchiveCorrupt, MaxFileSize, "p"),
    Request(WinName, ArchiveExe, MaxFileSize, "") }

\* the size check rejecting the maximum itself
TooLargeInclusive(size) == size >= MaxFileSize

\* the size check of step 1
TooLarge(size) == size > MaxFileSize

\* a step 6 that takes the id of the record it found
LookedReuse(existing, l) ==
  IF existing # 0 THEN [l EXCEPT !.uploadID = existing] ELSE l

\* Step 6 with the locals l: existing is the row GetByHash returned, 0 when
\* it returned none or failed; it is logged, and the locals stay as they are
Looked(existing, l) == l

\* Steps 1 to 6: the size check, generateSecureToken twice, io.Copy through
\* the hasher, validateZipMagicBytes, validateAndMeasureZip, and the
\* duplicate lookup, whose result and error are only logged.
PU_Begin(req) ==
  /\ UNCHANGED <<now, records, blobs, cl, unlinked>>
  /\ IF TooLarge(req.size)
     THEN /\ Answer(Result("ProcessUpload", 0, "FileTooLarge"))
          /\ UNCHANGED nextId
     ELSE \/ \* crypto/rand fails
             /\ Answer(Result("ProcessUpload", 0, "Internal"))
             /\ UNCHANGED nextId
          \/ \* io.Copy fails
             /\ Answer(Reply("ProcessUpload", 0, "Internal", << >>, NoToken, "generated"))
             /\ UNCHANGED nextId
          \/ LET measured == validateAndMeasureZip(req.data)
                 rejected(res) == Reply("ProcessUpload", 0, res, << >>, NoToken, "read")
             IN IF validateZipMagicBytes(req.data) # "ok"
                  THEN /\ Answer(rejected(validateZipMagicBytes(req.data)))
                       /\ UNCHANGED nextId
                ELSE IF measured.err # "ok"
                  THEN /\ Answer(rejected(measured.err))
                       /\ UNCHANGED nextId
                ELSE /\ Idle # {}
                     /\ nextId <= MaxUploads
                     /\ nextId' = nextId + 1
                     /\ \E existing \in GetByHash(fileHashOf(req.data)) \cup {0} :
                          Goto(FirstIdle, "pu_save",
                               Looked(existing,
                                 [uploadID |-> nextId,
                                  deletionToken |-> TokenOf(nextId),
                                  filename |-> req.filename,
                                  password |-> req.password,
                                  fileHash |-> fileHashOf(req.data),
                                  bytesRead |-> req.data.size,
                                  originalSize |-> measured.size,
                                  storedBytes |-> 0]))

\* Save reporting the bytes as written without leaving a file
SaveNothing(id, size) == [n |-> size, blobs |-> blobs]

\* FileSystemStore.Save: the bytes written, the blob store after it
Save(id, size) == [n |-> size, blobs |-> blobs \cup {id}]

\* FileSystemStore.filePath
filePath(id) == <<"storage", id, ".zip">>

\* a Delete that reports success and leaves the file
DeleteBlobNothing(id) == blobs

\* FileSystemStore.Delete when os.Remove succeeds or the file is absent
DeleteBlob(id) == blobs \ {id}

\* a Delete for which a file that is not there is an error
StoreDeleteStrict(id, ioErr) ==
  IF ioErr \/ id \notin blobs
  THEN [err |-> "failed to delete file", blobs |-> blobs]
  ELSE [err |-> "nil", blobs |-> DeleteBlob(id)]

\* FileSystemStore.Delete: the error and the blob store after it; ioErr is
\* os.Remove failing with an error other than "does not exist"
StoreDelete(id, ioErr) ==
  IF ioErr
  THEN [err |-> "failed to delete file", blobs |-> blobs]
  ELSE [err |-> "nil", blobs |-> DeleteBlob(id)]

\* s.store.Delete(uploadID) with its error dropped: the clean-up of the
\* stored file after a failure of step 8 or 9
CleanUp(id) ==
  \/ /\ blobs' = DeleteBlob(id)
     /\ unlinked' = unlinked \cup {id}
  \/ UNCHANGED <<blobs, unlinked>>

\* Step 7: store.Save; a failed write removes the partial file.
PU_Save(p) ==
  /\ pc[p] = "pu_save"
  /\ \/ /\ Return(p, Reply("ProcessUpload", loc[p].uploadID, "Internal",
                           << >>, NoToken, "read"))
        /\ UNCHANGED blobs
     \/ LET saved == Save(loc[p].uploadID, loc[p].bytesRead)
        IN /\ blobs' = saved.blobs
           /\ Goto(p, "pu_create", [loc[p] EXCEPT !.storedBytes = saved.n])
  /\ UNCHANGED <<now, nextId, records, cl, unlinked>>

\* the record built with the filename as the client sent it
NewUploadRawName(l, passwordHash, t) ==
  [ID |-> l.uploadID,
   Filename |-> l.filename,
   OriginalSize |-> l.originalSize,
   CompressedSize |-> l.storedBytes,
   FileHash |-> l.fileHash,
   UploadedAt |-> t,
   ExpiresAt |-> t + DefaultExpiry,
   DownloadCount |-> 0,
   PasswordHash |-> passwordHash,
   DeletionToken |-> l.deletionToken,
   CreatedAt |-> t]

\* the database.Upload that step 9 builds
NewUpload(l, passwordHash, t) ==
  [ID |-> l.uploadID,
   Filename |-> sanitizeFilename(l.filename),
   OriginalSize |-> l.originalSize,
   CompressedSize |-> l.storedBytes,
   FileHash |-> l.fileHash,
   UploadedAt |-> t,
   ExpiresAt |-> t + DefaultExpiry,
   DownloadCount |-> 0,
   PasswordHash |-> passwordHash,
   DeletionToken |-> l.deletionToken,
   CreatedAt |-> t]

\* Steps 8 and 9: hash the password, build the record, repo.Create.
PU_Create(p) ==
  /\ pc[p] = "pu_create"
  /\ LET l == loc[p]
         id == l.uploadID
         failed == Reply("ProcessUpload", id, "Internal", << >>, NoToken, "read")
     IN \/ \* bcrypt fails: the stored file is cleaned up (best effort)
           /\ l.password # ""
           /\ CleanUp(id)
           /\ Return(p, failed)
           /\ UNCHANGED records
        \/ \* repo.Create fails
           /\ Goto(p, "pu_rollback", l)
           /\ UNCHANGED <<records, blobs, unlinked>>
        \/ LET hash == IF l.password # ""
                       THEN GenerateFromPassword(l.password, id)
                       ELSE NoHash
               upload == NewUpload(l, hash, now)
           IN /\ records' = [records EXCEPT ![id] = upload]
              /\ Return(p, Reply("ProcessUpload", id, "ok", upload.Filename,
                                 l.deletionToken, "read"))
              /\ UNCHANGED <<blobs, unlinked>>
  /\ UNCHANGED <<now, nextId, cl>>

\* The compensating store.Delete after a failed repo.Create.
PU_Rollback(p) ==
  /\ pc[p] = "pu_rollback"
  /\ CleanUp(loc[p].uploadID)
  /\ Return(p, Reply("ProcessUpload", loc[p].uploadID, "Internal",
                     << >>, NoToken, "read"))
  /\ UNCHANGED <<now, nextId, records, cl>>

(* -------------------------------------------------------------- GetInfo *)
\* The outcome of GetInfo on a record store at time t.
InfoOutcome(recs, id, t) ==
  IF recs[id] = NoRecord THEN "NotFound"
  ELSE IF IsExpired(recs[id], t) THEN "Expired"
  ELSE "ok"

GetInfo(id) ==
  /\ LET upload == GetByID(id)
         res == InfoOutcome(records, id, now)
     IN Answer(Reply("GetInfo", id, res,
                     IF res = "ok" THEN upload.Filename ELSE << >>, NoToken, "none"))
  /\ UNCHANGED <<now, nextId, records, blobs, cl, unlinked>>

(* ------------------------------------------------------------- GetStats *)
\* SUM(f) over the rows ids
RECURSIVE SumOver(_, _)
SumOver(ids, f) ==
  IF ids = {} THEN 0
  ELSE LET id == CHOOSE x \in ids : TRUE
       IN f[id] + SumOver(ids \ {id}, f)

\* the rows that Repository.GetStats counts as active: expires_at > NOW()
ActiveRows == {id \in Stored : records[id].ExpiresAt > now}

\* Repository.GetStats: the four aggregates over the uploads table
Stats ==
  [TotalUploads |-> Cardinality(Stored),
   ActiveUploads |-> Cardinality(ActiveRows),
   TotalDownloads |-> SumOver(Stored, [id \in Stored |-> records[id].DownloadCount]),
   StorageUsed |-> SumOver(ActiveRows,
                           [id \in ActiveRows |-> records[id].CompressedSize])]

\* UploadService.GetStats: the aggregates, or the error of the query
GetStats ==
  /\ \/ Answer(Result("GetStats", 0, "Internal"))
     \/ Answer([op |-> "GetStats", id |-> 0, res |-> "ok", path |-> << >>,
                name |-> << >>, token |-> NoToken, consumed |-> "none",
                stats |-> Stats])
  /\ UNCHANGED <<now, nextId, records, blobs, cl, unlinked>>

(* ------------------------------------------------------------- Download *)
\* downloads of id that have passed their checks and not yet returned
InFlight(id) ==
  Cardinality({q \in Procs : pc[q] \in {"dl_path", "dl_incr"} /\ loc[q].id = id})

\* Download checking the password only when one is given
DownloadCheckSkipEmpty(upload, password, t) ==
  IF upload = NoRecord THEN "NotFound"
  ELSE IF IsExpired(upload, t) THEN "Expired"
  ELSE IF upload.PasswordHash # NoHash /\ password # ""
          /\ ~CompareHashAndPassword(upload.PasswordHash, password)
       THEN "InvalidPassword"
  ELSE "ok"

\* The checks of Download before it touches the blob store.
DownloadCheck(upload, password, t) ==
  IF upload = NoRecord THEN "NotFound"
  ELSE IF IsExpired(upload, t) THEN "Expired"
  ELSE IF upload.PasswordHash # NoHash /\ password = "" THEN "PasswordRequired"
  ELSE IF upload.PasswordHash # NoHash
          /\ ~CompareHashAndPassword(upload.PasswordHash, password)
       THEN "InvalidPassword"
  ELSE "ok"

\* repo.GetByID, the expiry check and the password check, for at most max
\* downloads of a record.
DL_BeginUpTo(id, password, max) ==
  /\ LET upload == GetByID(id)
         res == DownloadCheck(upload, password, now)
     IN IF res # "ok"
        THEN Answer(Result("Download", id, res))
        ELSE /\ Idle # {}
             /\ upload.DownloadCount + InFlight(id) < max
             /\ Goto(FirstIdle, "dl_path",
                     [id |-> id, filename |-> upload.Filename, path |-> << >>])
  /\ UNCHANGED <<now, nextId, records, blobs, cl, unlinked>>

DL_Begin(id, password) == DL_BeginUpTo(id, password, MaxDownloads)

\* store.GetPath: os.Stat on the blob.
DL_Path(p) ==
  /\ pc[p] = "dl_path"
  /\ IF loc[p].id \in blobs
     THEN Goto(p, "dl_incr", [loc[p] EXCEPT !.path = filePath(loc[p].id)])
     ELSE Return(p, Result("Download", loc[p].id, "Internal"))
  /\ UNCHANGED <<now, nextId, records, blobs, cl, unlinked>>

\* an increment that renews the expiry as well
IncrementDownloadCountRenew(id) ==
  IF records[id] = NoRecord THEN records
  ELSE [records EXCEPT ![id].DownloadCount = @ + 1,
                       ![id].ExpiresAt = now + DefaultExpiry]

\* an increment that writes 1, the count of a record never downloaded
IncrementDownloadCountFromZero(id) ==
  IF records[id] = NoRecord THEN records
  ELSE [records EXCEPT ![id].DownloadCount = 1]

\* Repository.IncrementDownloadCount when the statement runs
IncrementDownloadCount(id) ==
  IF records[id] = NoRecord THEN records
  ELSE [records EXCEPT ![id].DownloadCount = @ + 1]

\* a Download that fails when its increment fails
DownloadedIfCounted(l, incrErr) ==
  IF incrErr = "nil"
  THEN [op |-> "Download", id |-> l.id, res |-> "ok", path |-> l.path,
        name |-> l.filename, token |-> NoToken, consumed |-> "none",
        incrErr |-> incrErr]
  ELSE [op |-> "Download", id |-> l.id, res |-> "Internal", path |-> << >>,
        name |-> << >>, token |-> NoToken, consumed |-> "none",
        incrErr |-> incrErr]

\* The reply of a Download that passed its checks: the path, the filename,
\* and in incrErr what the error log tells of the increment ("nil" when
\* nothing is logged).
Downloaded(l, incrErr) ==
  [op |-> "Download", id |-> l.id, res |-> "ok", path |-> l.path,
   name |-> l.filename, token |-> NoToken, consumed |-> "none",
   incrErr |-> incrErr]

\* repo.IncrementDownloadCount (best effort), then the path and the filename.
DL_Incr(p) ==
  /\ pc[p] = "dl_incr"
  /\ \/ \* the statement fails
        /\ UNCHANGED records
        /\ Return(p, Downloaded(loc[p], "failed"))
     \/ /\ records' = IncrementDownloadCount(loc[p].id)
        /\ Return(p, Downloaded(loc[p],
                                IF records[loc[p].id] = NoRecord
                                THEN "ErrUploadNotFound" ELSE "nil"))
  /\ UNCHANGED <<now, nextId, blobs, cl, unlinked>>

(* --------------------------------------------------------- DeleteUpload *)
\* DeleteUpload without the token comparison
DeleteCheckAnyToken(upload, token) ==
  IF upload = NoRecord THEN "NotFound" ELSE "ok"

\* The checks of DeleteUpload before it deletes anything.
DeleteCheck(upload, token) ==
  IF upload = NoRecord THEN "NotFound"
  ELSE IF upload.DeletionToken # token THEN "InvalidToken"
  ELSE "ok"

\* repo.GetByID and the token comparison.
DEL_Begin(id, token) ==
  /\ LET res == DeleteCheck(GetByID(id), token)
     IN IF res # "ok"
        THEN Answer(Result("DeleteUpload", id, res))
        ELSE Idle # {} /\ Goto(FirstIdle, "del_blob", [id |-> id])
  /\ UNCHANGED <<now, nextId, records, blobs, cl, unlinked>>

\* store.Delete: a failure is logged and the deletion goes on.
DEL_Blob(p) ==
  /\ pc[p] = "del_blob"
  /\ \E ioErr \in BOOLEAN :
       LET del == StoreDelete(loc[p].id, ioErr)
       IN IF del.err = "nil"
          THEN /\ blobs' = del.blobs
               /\ unlinked' = unlinked \cup {loc[p].id}
               /\ Goto(p, "del_rec", loc[p])
          ELSE /\ UNCHANGED <<blobs, unlinked>>
               /\ Goto(p, "del_rec", loc[p])
  /\ UNCHANGED <<now, nextId, records, cl>>

\* Repository.Delete reporting success without deleting the row
RepoDeleteNothing(id) == [err |-> "nil", records |-> records]

\* a Delete that removes every row with the content of row id
RepoDeleteByHash(id) ==
  IF records[id] = NoRecord
  THEN [err |-> "ErrUploadNotFound", records |-> records]
  ELSE [err |-> "nil",
        records |-> [j \in Ids |->
                       IF /\ records[j] # NoRecord
                          /\ records[j].FileHash = records[id].FileHash
                       THEN NoRecord ELSE records[j]]]

\* Repository.Delete when the statement runs: the error and the store after it
RepoDelete(id) ==
  IF records[id] = NoRecord
  THEN [err |-> "ErrUploadNotFound", records |-> records]
  ELSE [err |-> "nil", records |-> [records EXCEPT ![id] = NoRecord]]

\* repo.Delete: every error is wrapped and returned, unclassified.
DEL_Rec(p) ==
  /\ pc[p] = "del_rec"
  /\ \/ \* the statement fails
        /\ UNCHANGED records
        /\ Return(p, Result("DeleteUpload", loc[p].id, "Internal"))
     \/ LET del == RepoDelete(loc[p].id)
        IN /\ records' = del.records
           /\ Return(p, Result("DeleteUpload", loc[p].id,
                               IF del.err = "nil" THEN "ok" ELSE "Internal"))
  /\ UNCHANGED <<now, nextId, blobs, cl, unlinked>>

(* ------------------------------------------------------- CleanupService *)
\* cl is the goroutine of the cleanup loop: pc its position, found the
\* answer of GetExpired, todo the records of found not yet visited, cur the
\* record of the current iteration, cleaned and failed the two counters;
\* blobFailed and recFailed remember which delete failed for which record.
IdleCycle ==
  [pc |-> "idle", todo |-> {}, cur |-> 0, found |-> {},
   cleaned |-> 0, failed |-> 0, blobFailed |-> {}, recFailed |-> {}]

\* the loop goes on to the next record, or the cycle ends
NextRecord(c) ==
  IF c.todo = {} THEN {[c EXCEPT !.pc = "done", !.cur = 0]}
  ELSE {[c EXCEPT !.pc = "blob", !.cur = n, !.todo = c.todo \ {n}] : n \in c.todo}

\* The cycle's summary (the "cleanup cycle complete" log line) when c ends
\* the cycle, and the goroutine back in the loop of Start.
Summary(c) ==
  [op |-> "runCleanup", id |-> 0, res |-> "ok", path |-> << >>,
   name |-> << >>, token |-> NoToken, consumed |-> "none", found |-> c.found,
   cleaned |-> c.cleaned, failed |-> c.failed,
   blobFailed |-> c.blobFailed, recFailed |-> c.recFailed]

Continue(c) ==
  IF c.pc = "done"
  THEN cl' = IdleCycle /\ last' = Summary(c)
  ELSE cl' = c /\ last' = NoResult

\* runCleanup up to the loop: repo.GetExpired and the empty check.
CL_Query ==
  /\ Quiet
  /\ cl.pc = "idle"
  /\ \/ \* the query fails
        /\ cl' = IdleCycle
        /\ last' = [Summary(IdleCycle) EXCEPT !.res = "Internal"]
     \/ LET expired == GetExpired
        IN \E c \in NextRecord([IdleCycle EXCEPT !.found = expired,
                                                   !.todo = expired]) :
             Continue(c)
  /\ UNCHANGED <<now, nextId, records, blobs, pc, loc, unlinked>>

\* a failed store.Delete that ends the cycle: failed++ and return
BlobDeleteFailedReturn(c) ==
  {[c EXCEPT !.failed = @ + 1, !.blobFailed = @ \cup {c.cur},
             !.pc = "done", !.cur = 0]}

\* the iteration after a failed store.Delete: failed++ and continue
BlobDeleteFailed(c) ==
  NextRecord([c EXCEPT !.failed = @ + 1, !.blobFailed = @ \cup {c.cur}])

\* store.Delete(upload.ID) of the current record.
CL_Blob ==
  /\ Quiet
  /\ cl.pc = "blob"
  /\ \E ioErr \in BOOLEAN :
       LET del == StoreDelete(cl.cur, ioErr)
       IN IF del.err = "nil"
          THEN /\ blobs' = del.blobs
               /\ unlinked' = unlinked \cup {cl.cur}
               /\ Continue([cl EXCEPT !.pc = "rec"])
          ELSE /\ \E c \in BlobDeleteFailed(cl) : Continue(c)
               /\ UNCHANGED <<blobs, unlinked>>
  /\ UNCHANGED <<now, nextId, records, pc, loc>>

\* repo.Delete(ctx, upload.ID) of the current record.
CL_Rec ==
  /\ Quiet
  /\ cl.pc = "rec"
  /\ \/ \* the statement fails
        /\ \E c \in NextRecord([cl EXCEPT !.failed = @ + 1,
                                           !.recFailed = @ \cup {cl.cur}]) :
             Continue(c)
        /\ UNCHANGED records
     \/ LET del == RepoDelete(cl.cur)
        IN /\ records' = del.records
           /\ \E c \in NextRecord(
                  IF del.err = "nil"
                  THEN [cl EXCEPT !.cleaned = @ + 1]
                  ELSE [cl EXCEPT !.failed = @ + 1,
                                  !.recFailed = @ \cup {cl.cur}]) :
                Continue(c)
  /\ UNCHANGED <<now, nextId, blobs, pc, loc, unlinked>>

(* ---------------------------------------------------------- RateLimiter *)
\* Time of the limiter is counted in ticks, TicksPerSecond of them to the
\* second; a balance is kept in units of 1/TicksPerSecond token, so that
\* elapsed seconds times rate is a whole number of units (the model has no
\* rounding: the balances of the code are sums of such products).
TicksPerSecond == 2
\* an amount of whole tokens, in units
Whole(n) == n * TicksPerSecond

\* the 10 minutes of cleanup, in ticks (scaled)
IdleThreshold == 2

IPs == {"a", "b"}
Callers == {1, 2}

\* cfg.RateLimitRPS (tokens per second) and cfg.RateLimitBurst
Configs == {[rate |-> 2, burst |-> 2], [rate |-> 1, burst |-> 3]}

NoVisitor == [none |-> TRUE]

\* NewRateLimiter: mu is 0 when unlocked, else the caller that holds it
NewRateLimiter(rps, burst) ==
  [mu |-> 0, visitors |-> [ip \in IPs |-> NoVisitor], rate |-> rps, burst |-> burst]

NoCall == [pc |-> "idle"]

\* rl.mu.Lock() returns only when no one holds the mutex
Unlocked(mu) == mu = 0

\* the entry of a first request, created with the full burst
NewVisitorFull(burst, t) == [tokens |-> Whole(burst), lastCheck |-> t]

\* the entry of a first request
NewVisitor(burst, t) == [tokens |-> Whole(burst) - Whole(1), lastCheck |-> t]

\* the refill without the cap
RefillUncapped(tokens, elapsed, rate, burst) == tokens + elapsed * rate

\* v.tokens += elapsed * rl.rate, capped at the burst
Refill(tokens, elapsed, rate, burst) ==
  IF tokens + elapsed * rate > Whole(burst) THEN Whole(burst)
  ELSE tokens + elapsed * rate

\* allow on an existing entry v at time t: the entry after it and the answer
Spend(v, t, rate, burst) ==
  LET refilled == Refill(v.tokens, t - v.lastCheck, rate, burst)
  IN IF refilled < Whole(1)
     THEN [v |-> [tokens |-> refilled, lastCheck |-> t], ok |-> FALSE]
     ELSE [v |-> [tokens |-> refilled - Whole(1), lastCheck |-> t], ok |-> TRUE]

LimFrame ==
  UNCHANGED <<nextId, records, blobs, pc, loc, cl, unlinked, last, sched, fn>>

\* allow(ip): rl.mu.Lock()
L_Lock(p, ip) ==
  /\ callers[p].pc = "idle"
  /\ Unlocked(rl.mu)
  /\ rl' = [rl EXCEPT !.mu = p]
  /\ callers' = [callers EXCEPT ![p] = [pc |-> "read", ip |-> ip]]
  /\ UNCHANGED <<now, grants, born>>
  /\ LimFrame

\* v, exists := rl.visitors[ip]; now := time.Now()
L_Read(p) ==
  /\ callers[p].pc = "read"
  /\ callers' = [callers EXCEPT ![p] =
                   [pc |-> "update", ip |-> callers[p].ip,
                    v |-> rl.visitors[callers[p].ip],
                    exists |-> rl.visitors[callers[p].ip] # NoVisitor,
                    now |-> now]]
  /\ UNCHANGED <<now, rl, grants, born>>
  /\ LimFrame

\* The rest of allow, and the deferred rl.mu.Unlock().  v points to the
\* entry read from the map.  grants counts the requests allowed per address
\* and time, born is the time the entry of the address was created.
L_Update(p) ==
  /\ callers[p].pc = "update"
  /\ LET l == callers[p]
         ip == l.ip
     IN IF ~l.exists
        THEN /\ rl' = [rl EXCEPT !.visitors[ip] = NewVisitor(rl.burst, l.now),
                                 !.mu = 0]
             /\ grants' = [grants EXCEPT ![ip][l.now] = @ + 1]
             /\ born' = [born EXCEPT ![ip] = l.now]
        ELSE LET inMap == rl.visitors[ip] # NoVisitor
                 v == IF inMap THEN rl.visitors[ip] ELSE l.v
                 spent == Spend(v, l.now, rl.rate, rl.burst)
             IN /\ rl' = IF inMap
                         THEN [rl EXCEPT !.visitors[ip] = spent.v, !.mu = 0]
                         ELSE [rl EXCEPT !.mu = 0]
                /\ grants' = IF spent.ok
                             THEN [grants EXCEPT ![ip][l.now] = @ + 1]
                             ELSE grants
                /\ UNCHANGED born
  /\ callers' = [callers EXCEPT ![p] = NoCall]
  /\ UNCHANGED now
  /\ LimFrame

\* a cleanup that deletes the entries last seen at the cutoff as well
StaleInclusive(visitors, t) ==
  {ip \in IPs : visitors[ip] # NoVisitor
                /\ visitors[ip].lastCheck <= t - IdleThreshold}

\* the entries cleanup deletes at time t
Stale(visitors, t) ==
  {ip \in IPs : visitors[ip] # NoVisitor
                /\ visitors[ip].lastCheck < t - IdleThreshold}

\* cleanup(), the whole of it under the mutex
L_Cleanup ==
  /\ Unlocked(rl.mu)
  /\ Stale(rl.visitors, now) # {}
  /\ rl' = [rl EXCEPT !.visitors =
              [ip \in IPs |-> IF ip \in Stale(rl.visitors, now)
                              THEN NoVisitor ELSE rl.visitors[ip]]]
  /\ UNCHANGED <<now, callers, grants, born>>
  /\ LimFrame

\* time passes for the limiter
L_Tick ==
  /\ now < MaxLimTime
  /\ now' = now + 1
  /\ UNCHANGED <<rl, callers, grants, born>>
  /\ LimFrame

TheConfig == [rate |-> 2, burst |-> 2]

\* the limiter of the router, before its first request
LimiterFresh(cfg) ==
  /\ rl = NewRateLimiter(cfg.rate, cfg.burst)
  /\ callers = [p \in Callers |-> NoCall]
  /\ grants = [ip \in IPs |-> [t \in 0..MaxLimTime |-> 0]]
  /\ born = [ip \in IPs |-> 0]

(* -------------------------------------------- CleanupService.Start, Wait *)
\* sched is the loop of Start and the shutdown of main: pc the position of
\* the loop goroutine ("new" before Start, "first" before the run at start,
\* "select" at the select, "run" in runCleanup before its query, "cycle" in
\* the loop over the expired records, "exited" after the return), tick
\* whether ticker.C holds a tick, cancelled whether ctx is done, done whether
\* cs.done is closed, main the position of main.  inflight counts the calls
\* of runCleanup that have not returned; atCancel tells whether a cycle was
\* running when ctx was cancelled ("open") and has returned since
\* ("finished"); ctxFailed are the records whose repo.Delete met the
\* cancelled ctx.
NotStarted ==
  [pc |-> "new", tick |-> FALSE, cancelled |-> FALSE, done |-> FALSE,
   main |-> "serving", inflight |-> 0, atCancel |-> "none", ctxFailed |-> {}]

SchedFrame == UNCHANGED <<rl, callers, grants, born, fn>>

\* cleanup.Start(cleanupCtx): the goroutine and its ticker
S_Start ==
  /\ sched.pc = "new"
  /\ sched' = [sched EXCEPT !.pc = "first"]
  /\ UNCHANGED svars
  /\ SchedFrame

\* The ticker sends on ticker.C, a channel of capacity 1: a tick that finds
\* the channel full is dropped.
S_TickFires ==
  /\ sched.pc \notin {"new", "exited"}
  /\ ~sched.tick
  /\ sched' = [sched EXCEPT !.tick = TRUE]
  /\ UNCHANGED svars
  /\ SchedFrame

\* a loop that takes a tick wherever it is
CanRunOnTick(s) == s.pc = "first" \/ s.tick

\* the loop goroutine is where it calls runCleanup: before the loop, or at
\* the select with a tick to receive
CanRun(s) == s.pc = "first" \/ (s.pc = "select" /\ s.tick)

\* cs.runCleanup(ctx) is called, at start or for a tick
S_Run ==
  /\ CanRun(sched)
  /\ sched' = [sched EXCEPT !.pc = "run",
                            !.tick = IF sched.pc = "first" THEN @ ELSE FALSE,
                            !.inflight = @ + 1]
  /\ UNCHANGED svars
  /\ SchedFrame

\* a loop that calls runCleanup again without a select in between
ReturnedToRun(s, c) ==
  IF c.pc = "idle"
  THEN [s EXCEPT !.pc = "first", !.inflight = @ - 1,
                 !.atCancel = IF @ = "open" THEN "finished" ELSE @]
  ELSE [s EXCEPT !.pc = "cycle"]

\* runCleanup has returned to the loop when the cycle is over
Returned(s, c) ==
  IF c.pc = "idle"
  THEN [s EXCEPT !.pc = "select", !.inflight = @ - 1,
                 !.atCancel = IF @ = "open" THEN "finished" ELSE @]
  ELSE [s EXCEPT !.pc = "cycle"]

\* repo.GetExpired(ctx): a query on a cancelled ctx fails
S_Query ==
  /\ sched.pc = "run"
  /\ CL_Query
  /\ sched.cancelled => last'.res = "Internal"
  /\ sched' = Returned(sched, cl')
  /\ SchedFrame

\* store.Delete(upload.ID) takes no ctx
S_Blob ==
  /\ sched.pc = "cycle"
  /\ CL_Blob
  /\ sched' = Returned(sched, cl')
  /\ SchedFrame

\* repo.Delete(ctx, upload.ID): a statement on a cancelled ctx fails
S_Rec ==
  /\ sched.pc = "cycle"
  /\ CL_Rec
  /\ sched.cancelled => records' = records
  /\ sched' = Returned([sched EXCEPT !.ctxFailed =
                          IF sched.cancelled THEN @ \cup {cl.cur} ELSE @], cl')
  /\ SchedFrame

\* main, after the server's Shutdown: cleanupCancel(), then cleanup.Wait()
S_Cancel ==
  /\ sched.main = "serving"
  /\ sched.pc # "new"
  /\ sched' = [sched EXCEPT !.cancelled = TRUE, !.main = "waiting",
                            !.atCancel = IF sched.pc \in {"run", "cycle"}
                                         THEN "open" ELSE "none"]
  /\ UNCHANGED svars
  /\ SchedFrame

\* a goroutine that returns on ctx.Done() wherever it is
CanExitAnywhere(s) == s.pc \in {"select", "run", "cycle"} /\ s.cancelled

\* the select of the loop can take the case <-ctx.Done()
CanExit(s) == s.pc = "select" /\ s.cancelled

\* case <-ctx.Done(): close(cs.done); return (the deferred ticker.Stop())
S_Exit ==
  /\ CanExit(sched)
  /\ sched' = [sched EXCEPT !.pc = "exited", !.done = TRUE, !.tick = FALSE]
  /\ UNCHANGED svars
  /\ SchedFrame

\* Wait: <-cs.done
S_Wait ==
  /\ sched.main = "waiting"
  /\ sched.done
  /\ sched' = [sched EXCEPT !.main = "returned"]
  /\ UNCHANGED svars
  /\ SchedFrame

(* ------------------------------------------------------ single functions *)
\* fn is a call of one function on its own: the function f, its argument in
\* and, once the call has returned, its result out.
NoFn == [stage |-> "none"]

Called(f, arg) == [stage |-> "called", f |-> f, in |-> arg]

\* the call returns result
Returns(result) ==
  /\ fn.stage = "called"
  /\ fn' = [stage |-> "returned", f |-> fn.f, in |-> fn.in, out |-> result]
  /\ UNCHANGED <<now, nextId, records, blobs, pc, loc, cl, unlinked, last,
                 rl, callers, grants, born, sched>>

\* the service, the limiter and the loop as constructed, beside the call
Beside ==
  /\ Init
  /\ LimiterFresh(TheConfig)
  /\ sched = NotStarted

\* the first bytes of the buffers that are classified
Heads ==
  {<< >>, <<80, 75>>, <<80, 75, 3>>, <<80, 75, 3, 4>>, <<80, 75, 5, 6>>,
   <<80, 75, 7, 8>>, <<37, 80, 68, 70>>, <<77, 90, 3, 4>>}

\* the entry names of the archives that are classified
EntryNames ==
  {<<"a", ".", "e", "x", "e">>,
   <<"A", ".", "E", "x", "E">>,
   <<"x", ".", "B", "A", "T">>,
   <<"a", ".", "j", "s">>,
   <<"b", ".", "p", "y">>,
   <<"R", "E", "A", "D", "M", "E">>,
   <<"e", ".", "e", "x", "e", "/">>,
   <<"a", ".", "e", "x", "e", ".", "m", "d">>}

EntryLists == UNION {[1..n -> EntryNames] : n \in 0..MaxEntries}

\* The buffers that are classified: a buffer of fewer than 4 bytes or one
\* that archive/zip cannot read has no entries.
ArchiveInputs ==
  {[tag |-> "in", bytes |-> h, size |-> Len(h), parses |-> FALSE,
    entries |-> << >>] : h \in Heads}
  \cup
  {[tag |-> "in", bytes |-> h, size |-> Len(h) + more, parses |-> TRUE,
    entries |-> [i \in DOMAIN names |-> [name |-> names[i], usize |-> 1]]] :
     h \in {g \in Heads : Len(g) = 4}, more \in {0, 1}, names \in EntryLists}

ClassifyInit ==
  /\ Beside
  /\ fn \in {Called("validate", data) : data \in ArchiveInputs}

\* steps 4 and 5 of ProcessUpload on the buffer
F_Classify == Returns(ArchiveVerdict(fn.in))

ClassifySpec == ClassifyInit /\ [][F_Classify]_vars

\* n times the character c
Rep(c, n) == [i \in 1..n |-> c]

\* lengths around the limit of sanitizeFilename, and the shortest ones
NameLens == 0..2 \cup (MaxNameLen - 2)..(MaxNameLen + MaxOver)

\* every name of at most MaxShort characters out of a letter, the dot and
\* the two separators
ShortNames == UNION {[1..n -> {"a", ".", "/", "\\"}] : n \in 0..MaxShort}

\* The names that are sanitized: directories, a stem, an extension and
\* trailing separators, with stems and extensions on both sides of the
\* limit; and the short names.
SanitizeInputs ==
  ShortNames
  \cup
  {dir \o Rep("a", n) \o ext \o trail :
     dir \in {<< >>, <<"/">>, <<"p", "/">>, <<"p", "\\">>, <<"\\">>},
     n \in NameLens,
     ext \in {<< >>} \cup {<<".">> \o Rep("b", m) : m \in NameLens},
     trail \in {<< >>, <<"/">>, <<"\\">>}}

SanitizeInit ==
  /\ Beside
  /\ fn \in {Called("sanitizeFilename", name) : name \in SanitizeInputs}

F_Sanitize == Returns(sanitizeFilename(fn.in))

SanitizeSpec == SanitizeInit /\ [][F_Sanitize]_vars

(* ---------------------------------------------------------------- tokens *)
Digits == <<"0", "1", "2", "3", "4", "5", "6", "7", "8", "9">>

\* const charset of generateSecureToken
charset == LowerCase \o UpperCase \o Digits

\* crypto/rand as seen by one call: the i-th rand.Int(rand.Reader, 62)
\* returns (start + (i - 1) * step) % 62, or fails when i = failAt
\* (failAt = 0: no failure)
Draw(rnd, i) == (rnd.start + (i - 1) * rnd.step) % Len(charset)

Rands(starts, steps, fails) ==
  {[start |-> a, step |-> b, failAt |-> k] : a \in starts, b \in steps, k \in fails}

\* generateSecureToken leaving result[0] as make left it
generateSecureTokenFromOne(length, rnd) ==
  IF length < 0 THEN [token |-> Panic, err |-> "panic"]
  ELSE IF rnd.failAt \in 2..length THEN [token |-> << >>, err |-> "crypto/rand failure"]
  ELSE [token |-> [i \in 1..length |->
                     IF i = 1 THEN "\\x00" ELSE charset[Draw(rnd, i - 1) + 1]],
        err |-> "nil"]

\* generateSecureToken: [token, err]; make([]byte, length) panics on a
\* negative length
generateSecureToken(length, rnd) ==
  IF length < 0 THEN [token |-> Panic, err |-> "panic"]
  ELSE IF rnd.failAt \in 1..length THEN [token |-> << >>, err |-> "crypto/rand failure"]
  ELSE [token |-> [i \in 1..length |-> charset[Draw(rnd, i) + 1]], err |-> "nil"]

IdLength == 16
TokenLength == 24

\* Step 2 of ProcessUpload for the upload of data: uploadID and deletionToken
Credentials(rndId, rndToken, data) ==
  LET uploadID == generateSecureToken(IdLength, rndId)
      deletionToken == generateSecureToken(TokenLength, rndToken)
  IN IF uploadID.err # "nil" THEN [err |-> "Internal"]
     ELSE IF deletionToken.err # "nil" THEN [err |-> "Internal"]
     ELSE [err |-> "nil", uploadID |-> uploadID.token,
           deletionToken |-> <<"d", "e", "l", "_">> \o deletionToken.token]

\* the lengths generateSecureToken is called with
TokenLengths == (0 - 1)..MaxSmallLen \cup {8, IdLength, TokenLength, 32}

AllDraws == 0..(Len(charset) - 1)

TokenInit ==
  /\ Beside
  /\ fn \in {Called("generateSecureToken", [length |-> n, rnd |-> r]) :
                n \in TokenLengths,
                r \in Rands(AllDraws, {0, 1, 7, 61}, {0, 1, IdLength})}
           \cup
           {Called("ProcessUpload", [rndId |-> r, rndToken |-> q, data |-> d]) :
                r \in Rands(AllDraws, {1}, {0, IdLength}),
                q \in Rands({0, 30, 61}, {0, 7}, {0, TokenLength}),
                d \in Archives}

F_Generate ==
  /\ fn.f = "generateSecureToken"
  /\ Returns(generateSecureToken(fn.in.length, fn.in.rnd))

F_Credentials ==
  /\ fn.f = "ProcessUpload"
  /\ Returns(Credentials(fn.in.rndId, fn.in.rndToken, fn.in.data))

TokenSpec == TokenInit /\ [][F_Generate \/ F_Credentials]_vars

\* the declared uncompressed sizes of the entries that are measured: small
\* ones, and those around the largest int64 and the largest uint64
DeclaredSizes ==
  {0, 1, 2^(WordBits - 2), 2^(WordBits - 1) - 1, 2^(WordBits - 1), 2^WordBits - 1}

\* the archives that are measured: entries of these sizes, the last of them
\* possibly with a denied extension
MeasuredInputs ==
  {[tag |-> "in", bytes |-> <<80, 75, 3, 4>>, size |-> 5, parses |-> TRUE,
    entries |-> [i \in DOMAIN sizes |->
                   [name |-> IF denied /\ i = Len(sizes)
                             THEN <<"p", ".", "E", "X", "E">>
                             ELSE <<"a", ".", "t", "x", "t">>,
                    usize |-> sizes[i]]]] :
     sizes \in UNION {[1..n -> DeclaredSizes] : n \in 0..MaxMeasured},
     denied \in BOOLEAN}

MeasureInit ==
  /\ Beside
  /\ fn \in {Called("validateAndMeasureZip", data) : data \in MeasuredInputs}

F_Measure == Returns(validateAndMeasureZip(fn.in))

MeasureSpec == MeasureInit /\ [][F_Measure]_vars

(* ------------------------------------------- the limiter, call after call *)
\* One call on the limiter: allow of address "a" or cleanup, gap ticks after
\* the call before it.  The mutex makes each call one step.
Events == {[gap |-> g, call |-> c] : g \in 0..MaxGap, c \in {"allow", "cleanup"}}

\* the first request of the address, from which time is counted
FirstRequest == [gap |-> 0, call |-> "allow"]

\* allow(ip) from Lock to Unlock on the entry v (NoVisitor when the map has
\* none): the entry after it and the answer
Allow(v, t, rate, burst) ==
  IF v = NoVisitor THEN [v |-> NewVisitor(burst, t), ok |-> TRUE]
  ELSE Spend(v, t, rate, burst)

\* cleanup() from Lock to Unlock at time t: the map after it
Swept(visitors, t) ==
  [ip \in IPs |-> IF ip \in Stale(visitors, t) THEN NoVisitor ELSE visitors[ip]]

\* a limiter just constructed, with no call answered
Unserved(cfg) ==
  [visitors |-> NewRateLimiter(cfg.rate, cfg.burst).visitors, t |-> 0,
   answers |-> << >>]

\* the limiter st after the call e, with the answer to it
Call(st, e, cfg) ==
  LET at == st.t + e.gap
  IN IF e.call = "cleanup"
     THEN [visitors |-> Swept(st.visitors, at), t |-> at,
           answers |-> Append(st.answers, "swept")]
     ELSE LET a == Allow(st.visitors["a"], at, cfg.rate, cfg.burst)
          IN [visitors |-> [st.visitors EXCEPT !["a"] = a.v], t |-> at,
              answers |-> Append(st.answers, IF a.ok THEN "allowed" ELSE "denied")]

\* the limiter st after the calls of events, one after the other
RECURSIVE Serve(_, _, _)
Serve(events, st, cfg) ==
  IF events = << >> THEN st
  ELSE Serve(Tail(events), Call(st, Head(events), cfg), cfg)

ServeInit ==
  /\ Beside
  /\ fn \in {[stage |-> "returned", f |-> "allow",
               in |-> [cfg |-> c, events |-> << >>], out |-> Unserved(c)] :
                c \in Configs}

\* one more call on the limiter, the first of them a request
F_Call ==
  /\ fn.stage = "returned" /\ fn.f = "allow"
  /\ Len(fn.in.events) < MaxEvents
  /\ \E e \in Events :
       /\ fn.in.events = << >> => e = FirstRequest
       /\ fn' = [fn EXCEPT !.in.events = Append(@, e),
                           !.out = Call(@, e, fn.in.cfg)]
  /\ UNCHANGED <<now, nextId, records, blobs, pc, loc, cl, unlinked, last,
                 rl, callers, grants, born, sched>>

ServeSpec == ServeInit /\ [][F_Call]_vars

(* ---------------------------------------------------------------- system *)
Deliver ==
  /\ ~Quiet
  /\ last' = NoResult
  /\ UNCHANGED <<now, nextId, records, blobs, pc, loc, cl, unlinked>>

\* The limiter and the loop of the cleanup service stand still while the
\* upload service is looked at on its own.
Elsewhere == UNCHANGED <<rl, callers, grants, born, sched, fn>>

Next ==
  \/ Deliver /\ Elsewhere
  \/ Tick /\ Elsewhere
  \/ \E req \in UploadRequests : PU_Begin(req) /\ Elsewhere
  \/ \E id \in Ids : GetInfo(id) /\ Elsewhere
  \/ GetStats /\ Elsewhere
  \/ \E id \in Ids, password \in Passwords : DL_Begin(id, password) /\ Elsewhere
  \/ \E id \in Ids, token \in Tokens : DEL_Begin(id, token) /\ Elsewhere
  \/ \E p \in Procs :
       \/ PU_Save(p) /\ Elsewhere
       \/ PU_Create(p) /\ Elsewhere
       \/ PU_Rollback(p) /\ Elsewhere
       \/ DL_Path(p) /\ Elsewhere
       \/ DL_Incr(p) /\ Elsewhere
       \/ DEL_Blob(p) /\ Elsewhere
       \/ DEL_Rec(p) /\ Elsewhere
  \/ CL_Query /\ Elsewhere
  \/ CL_Blob /\ Elsewhere
  \/ CL_Rec /\ Elsewhere

\* The upload service with its stores and reclamation cycles (a cycle may
\* begin whenever none is running); Init is the state of the service and
\* the stores after construction.
SpecInit ==
  /\ Init
  /\ LimiterFresh(TheConfig)
  /\ sched = NotStarted
  /\ fn = NoFn

Spec == SpecInit /\ [][Next]_vars

\* allow and cleanup of one limiter, under each configuration
LimInit ==
  /\ Init
  /\ \E cfg \in Configs : LimiterFresh(cfg)
  /\ sched = NotStarted
  /\ fn = NoFn

LimNext ==
  \/ L_Tick
  \/ \E p \in Callers, ip \in IPs : L_Lock(p, ip)
  \/ \E p \in Callers : L_Read(p)
  \/ \E p \in Callers : L_Update(p)
  \/ L_Cleanup

LimiterSpec == LimInit /\ [][LimNext]_vars

\* the uploads that give the cleanup loop records to reclaim
SchedUploads == {Request(WinName, ArchiveGood, MaxFileSize, "")}

\* The loop of the cleanup service from Start to the return of Wait, beside
\* uploads and the clock.
SchedNext ==
  \/ Deliver /\ Elsewhere
  \/ Tick /\ Elsewhere
  \/ \E req \in SchedUploads : PU_Begin(req) /\ Elsewhere
  \/ \E p \in Procs :
       \/ PU_Save(p) /\ Elsewhere
       \/ PU_Create(p) /\ Elsewhere
       \/ PU_Rollback(p) /\ Elsewhere
  \/ S_Start
  \/ S_TickFires
  \/ S_Run
  \/ S_Query
  \/ S_Blob
  \/ S_Rec
  \/ S_Cancel
  \/ S_Exit
  \/ S_Wait

SchedSpec == SpecInit /\ [][SchedNext]_vars

\* The loop of the cleanup service while the server runs: no shutdown.
ReclaimNext ==
  \/ Deliver /\ Elsewhere
  \/ Tick /\ Elsewhere
  \/ \E req \in SchedUploads : PU_Begin(req) /\ Elsewhere
  \/ \E p \in Procs :
       \/ PU_Save(p) /\ Elsewhere
       \/ PU_Create(p) /\ Elsewhere
       \/ PU_Rollback(p) /\ Elsewhere
  \/ S_Start
  \/ S_TickFires
  \/ S_Run
  \/ S_Query
  \/ S_Blob
  \/ S_Rec

ReclaimSpec == SpecInit /\ [][ReclaimNext]_vars

\* repo.GetExpired returns its rows
S_QueryAnswered == S_Query /\ last'.res # "Internal"

\* repo.Delete removes the row
S_RecDeleted == S_Rec /\ records' # records

\* ReclaimSpec with the loop started, the ticker firing again and again,
\* the goroutine scheduled as in SchedLive, and a record store whose query
\* and whose delete succeed in the end when they are called again and again.
\* The blob store is left free to fail every time.
ReclaimLive ==
  /\ ReclaimSpec
  /\ WF_vars(Deliver /\ Elsewhere)
  /\ WF_vars(S_Start)
  /\ WF_vars(S_TickFires)
  /\ WF_vars(S_Run)
  /\ SF_vars(S_Query)
  /\ SF_vars(S_Blob)
  /\ SF_vars(S_Rec)
  /\ SF_vars(S_QueryAnswered)
  /\ SF_vars(S_RecDeleted)

\* Uploads whose declared size and real length differ, either way.
SizedUploads ==
  { Request(WinName, ArchiveGood, MaxFileSize, ""),
    Request(WinName, ArchiveGood, 0, ""),
    Request(WinName, ArchiveGood, MaxFileSize + 1, ""),
    Request(WinName, ArchiveLong, MaxFileSize - 1, "p"),
    Request(WinName, ArchiveLong, MaxFileSize + 1, "") }

\* ProcessUpload on these, beside the readers of what it stored.
SizeNext ==
  \/ Deliver /\ Elsewhere
  \/ Tick /\ Elsewhere
  \/ \E req \in SizedUploads : PU_Begin(req) /\ Elsewhere
  \/ \E id \in Ids : GetInfo(id) /\ Elsewhere
  \/ GetStats /\ Elsewhere
  \/ \E p \in Procs :
       \/ PU_Save(p) /\ Elsewhere
       \/ PU_Create(p) /\ Elsewhere
       \/ PU_Rollback(p) /\ Elsewhere

SizeSpec == SpecInit /\ [][SizeNext]_vars

\* the uploads whose records are downloaded: one open, one protected
CountedUploads ==
  { Request(WinName, ArchiveGood, MaxFileSize, ""),
    Request(WinName, ArchiveGood, MaxFileSize, "p") }

\* Downloads of the same records side by side, beside the uploads that
\* create the records, the deletions that remove them and the clock.
CountNext ==
  \/ Deliver /\ Elsewhere
  \/ Tick /\ Elsewhere
  \/ \E req \in CountedUploads : PU_Begin(req) /\ Elsewhere
  \/ \E id \in Ids, pw \in Passwords :
       DL_BeginUpTo(id, pw, MaxCount) /\ Elsewhere
  \/ \E id \in Ids : DEL_Begin(id, TokenOf(id)) /\ Elsewhere
  \/ \E p \in Procs :
       \/ PU_Save(p) /\ Elsewhere
       \/ PU_Create(p) /\ Elsewhere
       \/ PU_Rollback(p) /\ Elsewhere
       \/ DL_Path(p) /\ Elsewhere
       \/ DL_Incr(p) /\ Elsewhere
       \/ DEL_Blob(p) /\ Elsewhere
       \/ DEL_Rec(p) /\ Elsewhere

CountSpec == SpecInit /\ [][CountNext]_vars

\* SchedSpec with the scheduling of the Go runtime: a goroutine that can take
\* a step takes it in the end, however many requests are served beside it
\* (the store calls of the cycle are enabled between any two replies, hence
\* their strong fairness), and a select that is reached again and again
\* with ctx.Done() ready takes that case in the end, since it chooses at
\* random among its ready cases.
SchedLive ==
  /\ SchedSpec
  /\ WF_vars(Deliver /\ Elsewhere)
  /\ WF_vars(S_Run)
  /\ SF_vars(S_Query)
  /\ SF_vars(S_Blob)
  /\ SF_vars(S_Rec)
  /\ SF_vars(S_Exit)
  /\ WF_vars(S_Wait)

(* ================================================================ claims *)
\* the cycle that just ended: last is its summary
CycleEnded == last.op = "runCleanup" /\ last.res = "ok"

\* id has a record whose expiresAt is in the past
Past(id) == records[id] # NoRecord /\ records[id].ExpiresAt < now

(* C1: in a reclamation cycle, an expired record whose blob delete failed
   still has its metadata record deleted (the record-store delete
   succeeding): when the cycle ends, no record is left for it. *)
C1_RecordRemovedDespiteBlobFailure ==
  CycleEnded =>
    \A id \in last.blobFailed \ last.recFailed :
      InfoOutcome(records, id, now) = "NotFound"

(* C2: for every stored record, GetInfo and Download return Expired exactly
   when now >= expiresAt: at the instant now = expiresAt as well, and never
   while now < expiresAt. *)
C2_ExpiredFromExpiryInstant ==
  [][\A id \in Stored :
       /\ GetInfo(id) =>
            (last'.res = "Expired" <=> now >= records[id].ExpiresAt)
       /\ \A password \in Passwords :
            DL_Begin(id, password) =>
              (last'.res = "Expired" <=> now >= records[id].ExpiresAt)]_vars

(* C3: a record whose expiresAt is in the past yields Expired from GetInfo
   and from Download as long as it is in the record store; the next cycle's
   query returns it, and when that cycle ends with the deletes of the record
   having succeeded, neither the record nor the blob is left and GetInfo and
   Download yield NotFound. *)
C3_ExpiredThenReclaimed ==
  [][/\ \A id \in Ids :
          Past(id) =>
            /\ GetInfo(id) => last'.res = "Expired"
            /\ \A password \in Passwords :
                 DL_Begin(id, password) => last'.res = "Expired"
     /\ CL_Query /\ last'.res # "Internal" =>
          \A id \in Ids : Past(id) => id \in cl'.found
     /\ CycleEnded' =>
          \A id \in last'.found \ (last'.blobFailed \cup last'.recFailed) :
            /\ id \notin blobs'
            /\ InfoOutcome(records', id, now') = "NotFound"
            /\ \A password \in Passwords :
                 DownloadCheck(records'[id], password, now') = "NotFound"]_vars

\* a cycle has just ended that removed an expired record and its blob
C3_Witness ==
  /\ CycleEnded
  /\ \E id \in last.found :
       id \notin last.blobFailed \cup last.recFailed /\ records[id] = NoRecord

(* C4 as stated: in every reachable state, every id that has a record also
   has a blob. *)
C4_RecordImpliesBlob == \A id \in Stored : id \in blobs

(* C4, amended: every id that has a record also has a blob, unless a
   DeleteUpload with the matching token or a reclamation cycle has already
   deleted that id's blob. *)
C4_RecordImpliesBlobUnlessUnlinked ==
  \A id \in Stored : id \in blobs \/ id \in unlinked

\* a record whose blob a deletion took, beside a record that has its blob
C4_Witness ==
  /\ \E id \in Stored : id \notin blobs /\ id \in unlinked
  /\ \E id \in Stored : id \in blobs

(* C5: DeleteUpload with a token that differs from the stored deletionToken
   returns InvalidToken and changes neither store; GetInfo answers after it
   what it answered before it, and never NotFound. *)
C5_WrongTokenIsNoOp ==
  [][\A id \in Stored : \A token \in Tokens :
       DEL_Begin(id, token) /\ token # records[id].DeletionToken =>
         /\ last'.op = "DeleteUpload" /\ last'.res = "InvalidToken"
         /\ UNCHANGED <<records, blobs, unlinked, pc, loc>>
         /\ InfoOutcome(records', id, now') = InfoOutcome(records, id, now)
         /\ InfoOutcome(records', id, now') # "NotFound"]_vars

\* a DeleteUpload has just been refused for its token, the record in place
C5_Witness ==
  /\ last.op = "DeleteUpload" /\ last.res = "InvalidToken"
  /\ last.id \in Stored /\ last.id \in blobs

\* id was issued and has no record, nor an upload that may still create it
Removed(id) ==
  /\ id < nextId
  /\ records[id] = NoRecord
  /\ \A p \in Procs :
       ~(pc[p] \in {"pu_save", "pu_create", "pu_rollback"} /\ loc[p].uploadID = id)

(* C6 as stated: DeleteUpload with the matching token always removes the
   metadata record: whenever it has passed the token comparison and
   returned, the record is gone. *)
C6_MatchAlwaysRemovesRecord ==
  last.op = "DeleteUpload" /\ last.res \notin {"NotFound", "InvalidToken"} =>
    records[last.id] = NoRecord

(* C6, amended: DeleteUpload with the matching token goes on to the record
   delete whether or not the blob removal failed, and the record is removed
   whenever that record delete succeeds; when it fails the record stays and
   an error is returned.  Once the record is removed the id stays removed,
   and GetInfo, Download and DeleteUpload return NotFound for it. *)
C6_MatchRemovesRecordAndDeletedIsTerminal ==
  [][/\ \A id \in Stored : \A token \in Tokens :
          DEL_Begin(id, token) /\ token = records[id].DeletionToken =>
            /\ last' = NoResult
            /\ pc'[FirstIdle] = "del_blob" /\ loc'[FirstIdle].id = id
     /\ \A p \in Procs :
          /\ DEL_Blob(p) =>
               /\ pc'[p] = "del_rec" /\ loc'[p].id = loc[p].id
               /\ last' = NoResult
          /\ DEL_Rec(p) =>
               /\ last'.op = "DeleteUpload" /\ last'.id = loc[p].id
               /\ last'.res = "ok" =>
                    records[loc[p].id] # NoRecord /\ records'[loc[p].id] = NoRecord
               /\ last'.res # "ok" =>
                    last'.res = "Internal" /\ records' = records
     /\ \A id \in Ids :
          Removed(id) =>
            /\ Removed(id)'
            /\ GetInfo(id) => last'.res = "NotFound"
            /\ \A password \in Passwords :
                 DL_Begin(id, password) => last'.res = "NotFound"
            /\ \A token \in Tokens :
                 DEL_Begin(id, token) => last'.res = "NotFound"]_vars

\* a DeleteUpload has just removed the record although the blob removal
\* failed: the blob is orphaned
C6_Witness ==
  /\ last.op = "DeleteUpload" /\ last.res = "ok"
  /\ Removed(last.id)
  /\ last.id \in blobs

\* the record of id carries the hash of password P, and is not expired
Protected(id, P) ==
  /\ records[id] # NoRecord
  /\ records[id].PasswordHash = GenerateFromPassword(P, id)
  /\ ~IsExpired(records[id], now)

(* C7: an upload with a non-empty password P stores the hash of P; for the
   record, while it is not expired, Download with an empty password returns
   PasswordRequired, Download with another password returns InvalidPassword,
   and Download with P passes the checks and returns the blob path once the
   blob store has found the blob; the two failures return no path. *)
C7_PasswordGatesDownload ==
  [][/\ \A p \in Procs :
          PU_Create(p) /\ last'.res = "ok" /\ loc[p].password # "" =>
            LET id == loc[p].uploadID
            IN /\ records'[id] # NoRecord
               /\ records'[id].PasswordHash = GenerateFromPassword(loc[p].password, id)
     /\ \A id \in Ids : \A P \in Passwords \ {""} :
          Protected(id, P) =>
            \A password \in Passwords :
              DL_Begin(id, password) =>
                IF password = ""
                  THEN last'.res = "PasswordRequired" /\ last'.path = << >>
                ELSE IF password # P
                  THEN last'.res = "InvalidPassword" /\ last'.path = << >>
                ELSE /\ last' = NoResult
                     /\ pc'[FirstIdle] = "dl_path" /\ loc'[FirstIdle].id = id
     /\ \A p \in Procs :
          /\ DL_Path(p) /\ loc[p].id \in blobs =>
               pc'[p] = "dl_incr" /\ loc'[p].path = filePath(loc[p].id)
          /\ DL_Incr(p) =>
               /\ last'.op = "Download" /\ last'.res = "ok"
               /\ last'.path = filePath(loc[p].id) /\ last'.path # << >>]_vars

\* a Download of a protected, unexpired record has just been refused for a
\* wrong password
C7_Witness ==
  /\ last.op = "Download" /\ last.res = "InvalidPassword"
  /\ Protected(last.id, "p")
  /\ last.id \in blobs

\* the names sanitizeFilename makes of the names the clients send
SanitizedNames == {<<"f", ".", "z">>, DefaultName}

(* C8: ProcessUpload returns the sanitized filename and stores it in the
   record, where it never changes; a Download without password of a record
   without password hash, before expiry, passes the checks, finds the blob
   as long as no delete has taken it, and returns the filename of the
   record: the one ProcessUpload returned. *)
C8_DownloadReturnsUploadedName ==
  [][/\ \A p \in Procs :
          PU_Create(p) /\ last'.res = "ok" =>
            /\ last'.name \in SanitizedNames
            /\ last'.name = sanitizeFilename(loc[p].filename)
            /\ records'[last'.id].Filename = last'.name
     /\ \A id \in Stored :
          /\ records'[id] # NoRecord => records'[id].Filename = records[id].Filename
          /\ records[id].PasswordHash = NoHash /\ ~IsExpired(records[id], now)
             /\ DL_Begin(id, "") =>
               /\ last' = NoResult
               /\ pc'[FirstIdle] = "dl_path"
               /\ loc'[FirstIdle].id = id
               /\ loc'[FirstIdle].filename = records[id].Filename
     /\ \A p \in Procs :
          /\ pc[p] \in {"dl_path", "dl_incr"} /\ loc[p].id \in Stored =>
               loc[p].filename = records[loc[p].id].Filename
          /\ DL_Path(p) /\ loc[p].id \in Stored \ unlinked =>
               pc'[p] = "dl_incr" /\ loc'[p].filename = loc[p].filename
          /\ DL_Incr(p) =>
               /\ last'.op = "Download" /\ last'.res = "ok"
               /\ last'.name = loc[p].filename
               /\ last'.name \in SanitizedNames]_vars

\* a Download without password has just returned the sanitized name of an
\* upload that was sent as d\f.z, its record in place and not deleted from
C8_Witness ==
  /\ last.op = "Download" /\ last.res = "ok"
  /\ last.id \in Stored \ unlinked
  /\ records[last.id].PasswordHash = NoHash
  /\ last.name = <<"f", ".", "z">>
  /\ last.name = records[last.id].Filename

\* what the archive validator answers for the archives it rejects
Rejected ==
  [tag \in {"pdf", "short", "corrupt", "exe"} |->
     IF tag = "exe" THEN "DangerousContent" ELSE "InvalidArchive"]

(* C9: a ProcessUpload whose archive fails the magic-byte check, the
   structural parse or the denylist returns that error (unless generating
   the ids or reading the input failed before) and persists nothing: the
   blob store and the record store are as before the call, and no upload is
   left in progress. *)
C9_RejectedArchivePersistsNothing ==
  [][\A req \in UploadRequests :
       PU_Begin(req) /\ ~(req.size > MaxFileSize)
       /\ req.data.tag \in DOMAIN Rejected =>
         /\ last'.op = "ProcessUpload"
         /\ last'.res \in {Rejected[req.data.tag], "Internal"}
         /\ last'.res = "Internal" => last'.consumed # "read"
         /\ UNCHANGED <<records, blobs, nextId, pc, loc, unlinked>>]_vars

\* an archive has just been rejected for an entry of the denylist, while
\* the stores hold an earlier upload
C9_Witness ==
  /\ last.op = "ProcessUpload" /\ last.res = "DangerousContent"
  /\ last.consumed = "read"
  /\ \E id \in Stored : id \in blobs

(* C10: ProcessUpload with a declared size above the maximum returns
   FileTooLarge with no byte read, no id or token generated and nothing
   persisted; a declared size equal to the maximum is not rejected for its
   size. *)
C10_TooLargeRejectedFirst ==
  [][\A req \in UploadRequests :
       PU_Begin(req) =>
         IF req.size > MaxFileSize
         THEN /\ last'.op = "ProcessUpload" /\ last'.res = "FileTooLarge"
              /\ last'.consumed = "none"
              /\ UNCHANGED <<records, blobs, nextId, pc, loc, unlinked>>
         ELSE last'.res # "FileTooLarge"]_vars

\* an upload has just been refused for its size, after an upload that
\* declared exactly the maximum was accepted
C10_Witness ==
  /\ last.op = "ProcessUpload" /\ last.res = "FileTooLarge"
  /\ \E id \in Stored :
       records[id].FileHash = "good" /\ records[id].CompressedSize = MaxFileSize

(* ------------------------------------------------------ admission limiter *)
\* the requests of ip allowed at the times from..to
RECURSIVE GrantsIn(_, _, _)
GrantsIn(ip, from, to) ==
  IF from > to THEN 0 ELSE grants[ip][from] + GrantsIn(ip, from + 1, to)

\* the step of caller p allows its request
Allows(p) ==
  grants'[callers[p].ip][callers[p].now] = grants[callers[p].ip][callers[p].now] + 1

(* C13: with r <= b, a request of an address without entry is allowed; with
   no time elapsed since that first request, a request is allowed exactly
   while fewer than b were allowed, so b are allowed and the next is denied;
   from one second after the burst on, a request is allowed as long as
   fewer than r requests were allowed since the burst. *)
C13_BurstThenRefill ==
  [][\A p \in Callers :
       L_Update(p) /\ rl.rate <= rl.burst =>
         LET l == callers[p]
             ip == l.ip
         IN /\ ~l.exists => Allows(p)
            /\ l.exists /\ l.now = born[ip] =>
                 (Allows(p) <=> grants[ip][l.now] < rl.burst)
            /\ l.exists /\ l.now >= born[ip] + TicksPerSecond
               /\ grants[ip][born[ip]] = rl.burst
               /\ GrantsIn(ip, born[ip] + 1, l.now) < rl.rate =>
                 Allows(p)]_vars

\* an address has used its burst of b at once and, one second later, r
\* further requests of it have been allowed
C13_Witness ==
  \E ip \in IPs :
    /\ rl.visitors[ip] # NoVisitor
    /\ grants[ip][born[ip]] = rl.burst
    /\ now = born[ip] + TicksPerSecond
    /\ rl.visitors[ip].lastCheck = now
    /\ GrantsIn(ip, born[ip] + 1, now - 1) = 0
    /\ grants[ip][now] = rl.rate

(* C14: for every address and every time window, the number of requests
   allowed within the window is at most b + r * T, T the length of the
   window in seconds. *)
C14_WindowBound ==
  \A ip \in IPs : \A t1 \in 0..MaxLimTime : \A t2 \in t1..MaxLimTime :
    GrantsIn(ip, t1, t2) * TicksPerSecond
      <= Whole(rl.burst) + rl.rate * (t2 - t1)

(* C15: every entry's balance is at least 0 and at most b; a first request
   creates the entry with b - 1 tokens and is allowed; a request that finds
   the balance, refilled by elapsed * r and capped at b, below 1 is denied
   and leaves that balance; otherwise it is allowed and leaves that balance
   less 1. *)
C15_BalanceWithinBounds ==
  [][/\ \A ip \in IPs :
          rl'.visitors[ip] # NoVisitor =>
            /\ 0 <= rl'.visitors[ip].tokens
            /\ rl'.visitors[ip].tokens <= rl.burst * TicksPerSecond
     /\ \A p \in Callers :
          L_Update(p) =>
            LET l == callers[p]
                after == rl'.visitors[l.ip]
                cap == rl.burst * TicksPerSecond
                one == TicksPerSecond
            IN IF ~l.exists
               THEN /\ Allows(p)
                    /\ after = [tokens |-> cap - one, lastCheck |-> l.now]
               ELSE LET before == rl.visitors[l.ip]
                        sum == before.tokens + (l.now - before.lastCheck) * rl.rate
                        refilled == IF sum > cap THEN cap ELSE sum
                    IN /\ after.lastCheck = l.now
                       /\ IF refilled < one
                          THEN ~Allows(p) /\ after.tokens = refilled
                          ELSE Allows(p) /\ after.tokens = refilled - one]_vars

\* a request has just been denied on a balance between 0 and 1, which it
\* left in place
C15_Witness ==
  \E ip \in IPs :
    /\ rl.visitors[ip] # NoVisitor
    /\ rl.visitors[ip].tokens > 0
    /\ rl.visitors[ip].tokens < TicksPerSecond
    /\ grants[ip][rl.visitors[ip].lastCheck] = 0
    /\ rl.mu = 0

(* --------------------------------------------------------- cleanup loop *)
(* C16: at most one reclamation cycle is in flight at any time, and a cycle
   (the one at start or one for a tick) begins only when the cycle before it
   has returned, also when a tick fires while a cycle is running. *)
C16_NoOverlap ==
  [][/\ sched'.inflight <= 1
     /\ S_Run => sched.inflight = 0 /\ cl.pc = "idle"]_vars

\* a tick has fired while a cycle is at work on a record, and waits
C16_Witness ==
  /\ sched.pc = "cycle"
  /\ sched.tick
  /\ sched.inflight = 1
  /\ cl.pc \in {"blob", "rec"}

(* C17: Wait returns only after the loop has exited; from then on no cycle
   is in progress and none starts; a cycle that was running when ctx was
   cancelled has visited every record of its list before that. *)
C17_WaitJoins ==
  [][/\ sched'.main = "returned" =>
          /\ sched'.pc = "exited"
          /\ sched'.done
          /\ sched'.inflight = 0
          /\ cl'.pc = "idle"
          /\ sched'.atCancel # "open"
     /\ sched.main = "returned" => cl' = cl /\ sched'.inflight = 0
     /\ sched.atCancel = "open" /\ sched'.atCancel = "finished" =>
          /\ last'.op = "runCleanup"
          /\ last'.res = "ok" =>
               last'.cleaned + last'.failed = Cardinality(last'.found)]_vars

\* Wait has returned after a cycle that was running at the cancellation
C17_Witness ==
  /\ sched.main = "returned"
  /\ sched.atCancel = "finished"
  /\ sched.ctxFailed # {}

(* C18: once ctx is cancelled after Start, the loop exits and Wait returns
   in the end, whether the loop was at its select or in a cycle. *)
C18_ShutdownEnds ==
  sched.cancelled ~> (sched.pc = "exited" /\ sched.main = "returned")

\* the loop has exited and Wait has returned for a cancellation that came
\* in the middle of a cycle
C18_Witness ==
  /\ sched.pc = "exited"
  /\ sched.main = "returned"
  /\ sched.atCancel = "finished"

(* C19: no record that a cycle visits under a cancelled ctx ends with its
   blob deleted by the cycle and its record left behind because of the
   cancellation. *)
C19_AtomicUnderShutdown ==
  \A id \in sched.ctxFailed :
    ~(id \notin blobs /\ records[id] # NoRecord)

(* ------------------------------------------------------ upload rollback *)
(* C11: when ProcessUpload fails after the blob was written (the password
   hashing or the record creation fails), it returns the original failure
   whatever the clean-up did, the generated id has no record, and it has no
   blob if the clean-up's delete succeeded; a failed delete leaves the blob
   store as it was. *)
C11_RollbackAfterSave ==
  [][\A p \in Procs :
       LET id == loc[p].uploadID
       IN /\ pc[p] \in {"pu_create", "pu_rollback"}
          /\ last'.op = "ProcessUpload"
          /\ last'.id = id
          /\ last'.res # "ok"
          => /\ last' = Reply("ProcessUpload", id, "Internal", << >>,
                              NoToken, "read")
             /\ id \in blobs
             /\ records'[id] = NoRecord
             /\ id \in unlinked' => blobs' = blobs \ {id}
             /\ id \notin unlinked' => blobs' = blobs]_vars

\* an upload has failed after its blob was written, and the blob is gone
C11_Witness ==
  /\ last.op = "ProcessUpload"
  /\ last.res = "Internal"
  /\ last.id # 0
  /\ last.id \in unlinked
  /\ last.id \notin blobs
  /\ records[last.id] = NoRecord

(* ---------------------------------------------------- identical uploads *)
(* C12: uploads of the same bytes are stored apart: stored records have
   their own ids and pairwise distinct deletion tokens, an upload that
   succeeds adds its own record and has its own blob whatever is stored
   already, and a step that changes the record or the blob of one id
   (a deletion, a reclamation) leaves the record and the blob of every
   other id as they were. *)
C12_IdenticalUploadsApart ==
  [][/\ \A i \in Ids, j \in Ids :
          i # j /\ records'[i] # NoRecord /\ records'[j] # NoRecord =>
            /\ records'[i].ID = i
            /\ records'[i].DeletionToken # records'[j].DeletionToken
     /\ \A i \in Ids :
          records[i] = NoRecord /\ records'[i] # NoRecord =>
            /\ i \in blobs'
            /\ last'.op = "ProcessUpload" /\ last'.res = "ok"
            /\ last'.id = i
            /\ last'.token = records'[i].DeletionToken
     /\ \A i \in Ids, j \in Ids :
          /\ i # j
          /\ records'[i] # records[i] \/ (i \in blobs) # (i \in blobs')
          => /\ records'[j] = records[j]
             /\ (j \in blobs) = (j \in blobs')]_vars

\* two uploads of the same bytes are stored, the blob of one has been
\* deleted by a DeleteUpload that is about to delete its record, and the
\* other has its record and its blob
C12_Witness ==
  \E i \in Stored, j \in Stored :
    /\ i # j
    /\ records[i].FileHash = records[j].FileHash
    /\ i \in unlinked /\ i \notin blobs
    /\ j \in blobs /\ j \notin unlinked
    /\ \E p \in Procs : pc[p] = "del_rec" /\ loc[p].id = i

(* ------------------------------------------------------ download counter *)
\* record i is stored before and after the step
Stays(i) == records[i] # NoRecord /\ records'[i] # NoRecord

\* what every step does to the counters, whatever a successful Download
\* does: a new record starts at 0, no counter decreases, a Download that
\* fails changes no record, and only a Download changes a counter
CountersKept ==
  /\ \A i \in Ids :
       /\ records[i] = NoRecord /\ records'[i] # NoRecord =>
            records'[i].DownloadCount = 0
       /\ Stays(i) => records'[i].DownloadCount >= records[i].DownloadCount
       /\ Stays(i) /\ ~(last'.op = "Download" /\ last'.res = "ok"
                        /\ last'.id = i) =>
            records'[i].DownloadCount = records[i].DownloadCount
  /\ last'.op = "Download" /\ last'.res # "ok" => records' = records

(* C20: every record starts with downloadCount 0; the counter never
   decreases; each successful Download of a record that remains present
   increases it by exactly 1, also when downloads run side by side; a
   Download that fails leaves it unchanged. *)
C20_EveryDownloadCounted ==
  [][/\ CountersKept
     /\ \A i \in Ids :
          /\ last'.op = "Download" /\ last'.res = "ok" /\ last'.id = i
          /\ Stays(i)
          => records'[i].DownloadCount = records[i].DownloadCount + 1]_vars

(* C20, amended: as above, but a successful Download increases the counter
   by exactly 1 when its increment succeeded, and leaves every record as it
   was when the increment failed (the failure is only logged). *)
C20_CountedUnlessIncrementFailed ==
  [][/\ CountersKept
     /\ \A i \in Ids :
          /\ last'.op = "Download" /\ last'.res = "ok" /\ last'.id = i
          /\ Stays(i)
          => IF last'.incrErr = "nil"
             THEN records'[i].DownloadCount = records[i].DownloadCount + 1
             ELSE records' = records]_vars

\* two downloads of one record side by side: one has just been counted
\* while the other, past its checks, is about to increment
C20_Witness ==
  /\ last.op = "Download" /\ last.res = "ok"
  /\ last.incrErr = "nil"
  /\ records[last.id] # NoRecord
  /\ records[last.id].DownloadCount = 1
  /\ \E p \in Procs : pc[p] = "dl_incr" /\ loc[p].id = last.id

(* C21: the increment of downloadCount is best effort: whether it succeeds,
   fails, or finds the record deleted since the lookup, Download returns
   success with the blob path and the filename of the record it looked
   up. *)
C21_IncrementBestEffort ==
  [][\A p \in Procs :
       DL_Incr(p) =>
         /\ last'.op = "Download" /\ last'.id = loc[p].id
         /\ last'.res = "ok"
         /\ last'.path = filePath(loc[p].id)
         /\ last'.name = loc[p].filename
         /\ last'.incrErr # "nil" => records' = records]_vars

\* a Download has returned success although its increment found the record
\* deleted since the lookup
C21_Witness ==
  /\ last.op = "Download" /\ last.res = "ok"
  /\ last.incrErr = "ErrUploadNotFound"
  /\ last.path = filePath(last.id)
  /\ records[last.id] = NoRecord

(* ------------------------------------------------- download and removal *)
(* C22: a Download that races with the removal of its upload (by
   DeleteUpload or by a reclamation cycle) never returns an internal error,
   and a Download that starts when the record is gone returns NotFound. *)
C22_RaceNeverInternal ==
  [][/\ last'.op = "Download" /\ last'.id \in unlinked' =>
          last'.res # "Internal"
     /\ \A id \in Ids, password \in Passwords :
          records[id] = NoRecord /\ DL_Begin(id, password) =>
            last'.res = "NotFound"]_vars

(* ------------------------------------------------- failures in a cycle *)
(* C23: a failed blob delete or record delete for one expired record does
   not end the cycle and touches no other record: each delete of the cycle
   changes the record and the blob of its own upload only, the cycle ends
   only with its list run through, and then every record found is either
   counted as failed or gone with its blob, cleaned + failed being the
   number of records found. *)
C23_FailureIsolated ==
  [][/\ CL_Blob \/ CL_Rec =>
          /\ \A j \in Ids \ {cl.cur} :
               /\ records'[j] = records[j]
               /\ (j \in blobs') = (j \in blobs)
          /\ cl'.pc = "idle" => cl.todo = {}
     /\ CycleEnded' =>
          /\ last'.cleaned + last'.failed = Cardinality(last'.found)
          /\ last'.failed = Cardinality(last'.blobFailed \cup last'.recFailed)
          /\ \A id \in last'.found \ (last'.blobFailed \cup last'.recFailed) :
               records'[id] = NoRecord /\ id \notin blobs']_vars

\* a cycle over two expired records has ended with one delete failed and
\* the other record reclaimed
C23_Witness ==
  /\ CycleEnded
  /\ Cardinality(last.found) = 2
  /\ last.failed = 1
  /\ last.cleaned = 1

(* ---------------------------------------------------- record immutability *)
\* the record without its counter
Fixed(rec) == [rec EXCEPT !.DownloadCount = 0]

(* C24: from its creation to its deletion a record keeps every field but
   downloadCount, whatever operation runs; its expiresAt is uploadedAt plus
   the configured lifetime at creation and ever after. *)
C24_RecordImmutable ==
  [][\A id \in Ids :
       /\ records'[id] # NoRecord =>
            records'[id].ExpiresAt = records'[id].UploadedAt + DefaultExpiry
       /\ records[id] # NoRecord /\ records'[id] # NoRecord =>
            Fixed(records'[id]) = Fixed(records[id])]_vars

\* a record has been downloaded after its upload instant, and only its
\* counter has moved
C24_Witness ==
  /\ last.op = "Download" /\ last.res = "ok"
  /\ records[last.id] # NoRecord
  /\ records[last.id].DownloadCount = 1
  /\ now > records[last.id].UploadedAt
  /\ records[last.id].ExpiresAt = records[last.id].UploadedAt + DefaultExpiry

(* ------------------------------------------------- archive classification *)
\* the entry names whose extension, in lower case, is on the denylist
DeniedNames ==
  {<<"a", ".", "e", "x", "e">>,
   <<"A", ".", "E", "x", "E">>,
   <<"x", ".", "B", "A", "T">>}

(* C25: ProcessUpload classifies a buffer as InvalidArchive when it is
   shorter than 4 bytes, begins with neither PK 03 04 nor PK 05 06, or
   cannot be parsed; else as DangerousContent when at least one entry has an
   extension that is on the denylist once lower-cased, whatever the other
   entries; else validation passes. *)
C25_ArchiveClassified ==
  fn.stage = "returned" /\ fn.f = "validate" =>
    LET d == fn.in
        signed == /\ Len(d.bytes) >= 4
                  /\ SubSeq(d.bytes, 1, 4) \in {<<80, 75, 3, 4>>, <<80, 75, 5, 6>>}
        invalid == d.size < 4 \/ ~signed \/ ~d.parses
        denied == \E i \in 1..Len(d.entries) : d.entries[i].name \in DeniedNames
    IN fn.out = IF invalid THEN "InvalidArchive"
                ELSE IF denied THEN "DangerousContent"
                ELSE "ok"

\* an archive whose second entry has a denied extension in mixed case,
\* after a harmless first entry, has been classified as dangerous
C25_Witness ==
  /\ fn.stage = "returned" /\ fn.f = "validate"
  /\ fn.out = "DangerousContent"
  /\ Len(fn.in.entries) = 2
  /\ fn.in.entries[1].name = <<"a", ".", "j", "s">>
  /\ fn.in.entries[2].name = <<"A", ".", "E", "x", "E">>

(* ------------------------------------------------------------ file names *)
(* C26: for every input, sanitizeFilename returns without failing a single
   path component, free of both separators and of at most 255 characters,
   that keeps the extension when it is truncated, and the default name when
   the base name is empty or a bare dot. *)
C26_SanitizeTotalAndBounded ==
  fn.stage = "returned" /\ fn.f = "sanitizeFilename" =>
    LET base == Base(ReplaceBackslashes(fn.in))
        ext == Ext(base)
    IN /\ fn.out # Panic
       /\ \A i \in 1..Len(fn.out) : fn.out[i] \notin {"/", "\\"}
       /\ Len(fn.out) <= MaxNameLen
       /\ Len(base) > MaxNameLen =>
            /\ Len(fn.out) >= Len(ext)
            /\ SubSeq(fn.out, Len(fn.out) - Len(ext) + 1, Len(fn.out)) = ext
       /\ base \in {<< >>, <<".">>} => fn.out = DefaultName

(* ----------------------------------------------------------------- tokens *)
\* the 62 letters and digits
Alphanumeric ==
  {"a", "b", "c", "d", "e", "f", "g", "h", "i", "j", "k", "l", "m",
   "n", "o", "p", "q", "r", "s", "t", "u", "v", "w", "x", "y", "z",
   "A", "B", "C", "D", "E", "F", "G", "H", "I", "J", "K", "L", "M",
   "N", "O", "P", "Q", "R", "S", "T", "U", "V", "W", "X", "Y", "Z",
   "0", "1", "2", "3", "4", "5", "6", "7", "8", "9"}

(* C27: generateSecureToken(length), when it succeeds, returns exactly
   length characters of the 62 letters and digits; step 2 of a successful
   ProcessUpload yields an id of exactly 16 such characters and a deletion
   token made of 'del_' and exactly 24 such characters, and both are the
   same whatever content is uploaded. *)
C27_TokensWellFormed ==
  /\ Cardinality(Alphanumeric) = 62
  /\ fn.stage = "returned" /\ fn.f = "generateSecureToken" /\ fn.out.err = "nil" =>
       /\ Len(fn.out.token) = fn.in.length
       /\ \A i \in 1..Len(fn.out.token) : fn.out.token[i] \in Alphanumeric
  /\ fn.stage = "returned" /\ fn.f = "ProcessUpload" /\ fn.out.err = "nil" =>
       /\ Len(fn.out.uploadID) = 16
       /\ \A i \in 1..16 : fn.out.uploadID[i] \in Alphanumeric
       /\ Len(fn.out.deletionToken) = 4 + 24
       /\ SubSeq(fn.out.deletionToken, 1, 4) = <<"d", "e", "l", "_">>
       /\ \A i \in 5..28 : fn.out.deletionToken[i] \in Alphanumeric
       /\ \A d \in Archives :
            Credentials(fn.in.rndId, fn.in.rndToken, d) = fn.out

\* an upload got its id and token, out of draws that differ
C27_Witness ==
  /\ fn.stage = "returned" /\ fn.f = "ProcessUpload" /\ fn.out.err = "nil"
  /\ fn.in.data = ArchiveGood
  /\ Len(fn.out.uploadID) = 16
  /\ fn.out.uploadID[1] # fn.out.uploadID[16]
  /\ fn.out.deletionToken[5] # fn.out.deletionToken[28]

(* ------------------------------------------------- reclamation is bounded *)
(* C28: the query of a cycle returns only records whose expiresAt is in the
   past; the cycle keeps that list, and each of its deletes removes the blob
   or the record of the current element of the list and of no other id. So
   no upload with now < expiresAt loses its record or its blob to a step of
   the cycle, whenever it was created. *)
C28_OnlyExpiredReclaimed ==
  [][/\ CL_Query => \A id \in cl'.found : Past(id)
     /\ cl.pc # "idle" /\ cl'.pc # "idle" => cl'.found = cl.found
     /\ CL_Blob \/ CL_Rec =>
          /\ cl.cur \in cl.found
          /\ \A id \in Ids \ {cl.cur} :
               records'[id] = records[id] /\ (id \in blobs' <=> id \in blobs)
          /\ \A id \in Stored :
               now < records[id].ExpiresAt =>
                 records'[id] = records[id] /\ (id \in blobs => id \in blobs')]_vars

\* a cycle has deleted the blob of an expired upload and is about to delete
\* its record, while an upload that is not on its list has its blob saved
\* and its record not yet created
C28_Witness ==
  /\ cl.pc = "rec"
  /\ cl.cur \notin blobs
  /\ \E p \in Procs :
       /\ pc[p] = "pu_create"
       /\ loc[p].uploadID \in blobs
       /\ loc[p].uploadID \notin cl.found

(* ------------------------------------------------- reclamation liveness *)
(* C29: while the loop runs and ticks keep firing, every record whose
   expiresAt has passed is eventually gone from the record store and from
   the blob store, the record-store calls succeeding in the end, even if
   the blob delete fails every time. *)
C29_ExpiredEventuallyReclaimed ==
  \A id \in Ids : Past(id) ~> (records[id] = NoRecord /\ id \notin blobs)

(* ------------------------------------------------ the order of the checks *)
(* C30: Download checks existence, expiry, password and blob presence in
   that order: a missing id yields NotFound; an expired record (now >=
   expiresAt) yields Expired whatever the password; PasswordRequired and
   InvalidPassword are returned for records not expired only; and the blob
   store is asked only by a call that has passed the password check. *)
C30_ChecksInOrder ==
  [][\A id \in Ids, password \in Passwords :
       DL_Begin(id, password) =>
         /\ records[id] = NoRecord => last'.res = "NotFound"
         /\ records[id] # NoRecord /\ now >= records[id].ExpiresAt =>
              last'.res = "Expired"
         /\ last'.res \in {"PasswordRequired", "InvalidPassword"} =>
              records[id] # NoRecord /\ now < records[id].ExpiresAt
         /\ last'.res # "Internal"
         /\ \A p \in Procs :
              pc[p] = "idle" /\ pc'[p] = "dl_path" =>
                /\ records[id] # NoRecord
                /\ \/ records[id].PasswordHash = NoHash
                   \/ /\ password # ""
                      /\ CompareHashAndPassword(records[id].PasswordHash, password)]_vars

(* ------------------------------------------------- deletion and removal *)
(* C31: when the record is removed by a reclamation cycle or by another
   DeleteUpload between the lookup of a DeleteUpload and its record delete,
   that DeleteUpload reports success or NotFound, never an unclassified
   internal error. *)
C31_DeleteRaceClassified ==
  [][\A p \in Procs :
       DEL_Rec(p) /\ records[loc[p].id] = NoRecord =>
         last'.res \in {"ok", "NotFound"}]_vars

(* ------------------------------------------------- duplicate detection *)
(* C32: the duplicate lookup decides nothing: an upload that passes the
   validation goes on with its own fresh id and token and the values of its
   request, whatever the lookup returned; its save, when it succeeds, stores
   a blob under that id, and its create adds the record of that id, built from those values,
   beside the records already stored, a record of the same content
   included. *)
C32_DuplicateAdvisory ==
  [][/\ \A req \in UploadRequests :
          PU_Begin(req) =>
            \A p \in Procs :
              pc[p] = "idle" /\ pc'[p] = "pu_save" =>
                loc'[p] = [uploadID |-> nextId,
                           deletionToken |-> TokenOf(nextId),
                           filename |-> req.filename,
                           password |-> req.password,
                           fileHash |-> fileHashOf(req.data),
                           bytesRead |-> req.data.size,
                           originalSize |-> SumSizes(req.data.entries),
                           storedBytes |-> 0]
     /\ \A p \in Procs :
          /\ PU_Save(p) /\ last' = NoResult =>
               /\ loc[p].uploadID \in blobs'
               /\ \A j \in blobs : j \in blobs'
          /\ PU_Create(p) /\ last'.res = "ok" =>
               /\ records[loc[p].uploadID] = NoRecord
               /\ records'[loc[p].uploadID].ID = loc[p].uploadID
               /\ records'[loc[p].uploadID].FileHash = loc[p].fileHash
               /\ records'[loc[p].uploadID].DeletionToken = loc[p].deletionToken
               /\ last'.id = loc[p].uploadID
               /\ \A j \in Ids \ {loc[p].uploadID} : records'[j] = records[j]]_vars

\* an upload has just succeeded while an earlier record of the same content,
\* not expired, is stored: both have their record and their blob
C32_Witness ==
  /\ last.op = "ProcessUpload" /\ last.res = "ok"
  /\ \E j \in Stored \ {last.id} :
       /\ records[j].FileHash = records[last.id].FileHash
       /\ records[j].ExpiresAt > now
       /\ j < last.id
       /\ j \in blobs /\ last.id \in blobs

(* ------------------------------------------------- blob delete idempotent *)
(* C33: store.Delete of an id that has no blob returns no error and leaves
   the blob store as it is; so a cycle that meets an expired record whose
   blob is gone already (an earlier cycle deleted the blob and failed to
   delete the record) goes on to the record delete, which removes the
   record when it succeeds. *)
C33_BlobDeleteIdempotent ==
  [][/\ \A id \in Ids \ blobs :
          StoreDelete(id, FALSE) = [err |-> "nil", blobs |-> blobs]
     /\ CL_Blob /\ cl.cur \notin blobs =>
          /\ blobs' = blobs
          /\ cl.cur \notin (IF cl'.pc = "idle" THEN last'.blobFailed
                            ELSE cl'.blobFailed) =>
               cl'.pc = "rec" /\ cl'.cur = cl.cur
     /\ CL_Rec /\ cl.cur \notin blobs /\ records' # records =>
          records'[cl.cur] = NoRecord]_vars

\* a cycle is about to call store.Delete for an expired record whose blob an
\* earlier cycle has deleted
C33_Witness ==
  /\ cl.pc = "blob"
  /\ Past(cl.cur)
  /\ cl.cur \notin blobs
  /\ cl.cur \in unlinked

(* ------------------------------------------------------ the limiter's sweep *)
(* C35: cleanup removes exactly the entries whose last-seen time is older
   than the idle threshold and leaves every other entry, balance and
   timestamp, as it is; and it runs only while no allow() is between its
   Lock and its Unlock. *)
C35_SweepExact ==
  [][L_Cleanup =>
       /\ \A ip \in IPs :
            IF /\ rl.visitors[ip] # NoVisitor
               /\ now - rl.visitors[ip].lastCheck > IdleThreshold
            THEN rl'.visitors[ip] = NoVisitor
            ELSE rl'.visitors[ip] = rl.visitors[ip]
       /\ \A p \in Callers : callers[p].pc = "idle"
       /\ rl'.rate = rl.rate /\ rl'.burst = rl.burst]_vars

\* a sweep has removed the idle entry of one address and kept the entry of
\* the other, seen within the threshold
C35_Witness ==
  /\ rl.visitors["a"] = NoVisitor
  /\ grants["a"][0] > 0
  /\ rl.visitors["b"] # NoVisitor
  /\ now - rl.visitors["b"].lastCheck <= IdleThreshold
  /\ now - born["a"] > IdleThreshold

(* ------------------------------------------- the limiter, call after call *)
\* events without its i-th call, the time of the later calls kept
Drop(events, i) ==
  [k \in 1..(Len(events) - 1) |->
     IF k < i THEN events[k]
     ELSE IF k = i THEN [events[k + 1] EXCEPT !.gap = @ + events[i].gap]
     ELSE events[k + 1]]

\* answers without the i-th
Skip(answers, i) ==
  [k \in 1..(Len(answers) - 1) |-> IF k < i THEN answers[k] ELSE answers[k + 1]]

RECURSIVE DropSweeps(_)
\* events without its cleanup calls, the time of the requests kept
DropSweeps(events) ==
  IF \E i \in 1..Len(events) : events[i].call = "cleanup"
  THEN DropSweeps(Drop(events \o <<[gap |-> 0, call |-> "end"]>>,
                       CHOOSE i \in 1..Len(events) : events[i].call = "cleanup"))
  ELSE SelectSeq(events, LAMBDA e : e.call # "end")

\* the answers to the requests among answers
Decisions(answers) == SelectSeq(answers, LAMBDA a : a # "swept")

\* the answers of a limiter just constructed to the calls of events
Answers(events, cfg) == Serve(events, Unserved(cfg), cfg).answers

(* C34: for every sequence of calls with the requests of one address,
   removing a denied request from the sequence leaves the answer to every
   other request as it was. *)
C34_DeniedLeavesNoTrace ==
  fn.stage = "returned" /\ fn.f = "allow" =>
    \A i \in 1..Len(fn.out.answers) :
      fn.out.answers[i] = "denied" /\ i < Len(fn.out.answers) =>
        Answers(Drop(fn.in.events, i), fn.in.cfg) = Skip(fn.out.answers, i)

(* C36: for every rate and burst and every sequence of requests, the
   limiter whose idle entries are swept gives the same answers as the
   limiter that is never swept. *)
C36_SweepTransparent ==
  fn.stage = "returned" /\ fn.f = "allow" =>
    Decisions(fn.out.answers) = Answers(DropSweeps(fn.in.events), fn.in.cfg)

(* --------------------------------------------------- shutdown and cycles *)
(* C37: no reclamation cycle starts after shutdown is signalled: once the
   context is cancelled the loop does not call runCleanup again, neither
   for a tick that is pending at the same moment nor for the cycle at
   startup. *)
C37_NoCycleAfterShutdown == [][S_Run => ~sched.cancelled]_vars

(* ------------------------------------------------- the size limit, stored *)
(* C38: every record created by ProcessUpload has a storedSize (CompressedSize) that is at
   most the configured maximum and equals the number of bytes read from the
   input, whatever size the caller declared. *)
C38_StoredSizeBounded ==
  [][\A p \in Procs :
       PU_Create(p) /\ last'.res = "ok" =>
         /\ records'[last'.id].CompressedSize <= MaxFileSize
         /\ \E req \in SizedUploads :
              /\ fileHashOf(req.data) = records'[last'.id].FileHash
              /\ records'[last'.id].CompressedSize = req.data.size]_vars

(* ------------------------------------------- the four tests of expiry *)
(* C39: at every instant, the instant now = expiresAt included, a stored
   record is counted among the active uploads of GetStats and is visible to
   the lookup by hash if and only if GetInfo and Download do not take it
   for expired, if and only if the query of the cleanup cycle does not
   select it. *)
C39_ExpiryPredicatesAgree ==
  \A id \in Stored :
    LET live == ~IsExpired(records[id], now)
    IN /\ id \in ActiveRows <=> live
       /\ id \in GetByHash(records[id].FileHash) <=> live
       /\ live <=> id \notin GetExpired

(* ------------------------------------------------------- originalSize *)
RECURSIVE DeclaredTotal(_)
\* the sum, as a number, of the declared uncompressed sizes of es
DeclaredTotal(es) ==
  IF es = << >> THEN 0 ELSE Head(es).usize + DeclaredTotal(Tail(es))

(* C40: for every accepted archive, the size validateAndMeasureZip returns
   (the originalSize of the record) is the sum, as a number, of the declared
   uncompressed sizes of all its entries, and is not negative. *)
C40_OriginalSizeNeverWraps ==
  fn.stage = "returned" /\ fn.f = "validateAndMeasureZip" /\ fn.out.err = "ok" =>
    /\ fn.out.size = DeclaredTotal(fn.in.entries)
    /\ fn.out.size >= 0

====
